---- MODULE Spec2Model ----
(***************************************************************************)
(* State-machine model of HesburgerApiService (src/unnamed/part_000):      *)
(* the token lifecycle (login / refreshToken / ensureAuthenticated /       *)
(* makeAuthenticatedRequest), the listing and order entry points built on  *)
(* it, the background timer, the post-login self-test, forceReauth, and    *)
(* the cart store.                                                         *)
(*                                                                         *)
(* JavaScript runs every callback to completion, so one action is one      *)
(* event-loop turn: a call made by a component, the arrival of an HTTP     *)
(* response, a timer firing.  Everything RxJS does synchronously inside    *)
(* that turn (BehaviorSubject replay on subscribe, catchError, retry(1)    *)
(* resubscription, switchMap into requestFn) is part of the same action.   *)
(***************************************************************************)
EXTENDS Integers, Sequences, FiniteSets, Bags, TLC

\* ------------------------------------------------------------------ bounds
MaxCalls == 2
MaxAdvances == 2
MaxTimerRefreshes == 1
MaxSelfTests == 1
MaxForceReauth == 1
MaxLineQuantity == 5
MaxOrders == 2

\* ------------------------------------------------------ program constants
\* 23 * 60 * 60 * 1000 ms
TokenTTL == 82800000
\* 2 * 60 * 1000 ms
NearExpiryWindow == 120000
\* setInterval period, ms
TimerPeriod == 60000
\* Date.now() is EpochMillions * 10^6 + now: the model's clock `now` counts
\* milliseconds from a base instant that is a multiple of 10^6 ms.
EpochMillions == 1700000

VARIABLES
  now,          \* Date.now() minus the base instant, ms
  advances,     \* number of clock advances made (bounded)
  svc,          \* the service's token fields and their localStorage mirror
  net,          \* POST /login requests in flight (of the timer, the
                \* self-test and forceReauth); until the first login
                \* response arrives: the number of POST /login issued
                \* (burstLogins) and of entry-point calls made without a
                \* valid credential (coldCalls)
  bg,           \* timer / self-test / forceReauth bookkeeping
  subs,         \* the running subscriptions to API entry points (a bag)
  calls,        \* number of entry-point calls made (bounded)
  ev,           \* what the subscription that ended in the last turn received
  cart,         \* cartSubject.value
  cartStorage,  \* localStorage 'hesburger_cart'
  cartOp,       \* the last cart operation: its arguments and what it did
  cartSeen,     \* per component subscribed to cart$: the last state received
  checkout,     \* CheckoutComponent's fields, its processOrder calls waiting
                \* for the payment delay, and localStorage 'hesburger_orders'
  probe         \* the pure function applied last: its input and its result

authVars == <<now, advances, svc, net, bg, subs, calls, ev>>
cartVars == <<cart, cartStorage, cartOp, cartSeen, checkout>>
vars == <<now, advances, svc, net, bg, subs, calls, ev,
          cart, cartStorage, cartOp, cartSeen, checkout, probe>>

\* no pure function was applied
NoProbe == [fn |-> "none"]

\* ------------------------------------------------------------ token state
\* A JavaScript value of a field of a response: its type, the characters of
\* a string (or of the only element of an array), the number
JsValue(type, chars, n) == [type |-> type, chars |-> chars, n |-> n]

\* the field is absent
Undefined == JsValue("undefined", << >>, 0)

\* JavaScript truthiness, as || tests it
JsTruthy(v) ==
  CASE v.type \in {"undefined", "null"} -> FALSE
    [] v.type = "string" -> v.chars # << >>
    [] v.type = "number" -> v.n # 0
    [] v.type = "boolean" -> v.n = 1
    [] OTHER -> TRUE

\* the characters of a JavaScript string as one string
RECURSIVE Text(_)
Text(chars) == IF chars = << >> THEN "" ELSE Head(chars) \o Text(Tail(chars))

\* the credential the server issues in the modelled sessions
SessionChars == <<"e", "y", "J", "h", "b", "G", "c", "i", "O", "i", "J", "9">>
SessionToken == Text(SessionChars)

NullToken == "null"
\* JavaScript truthiness of authToken: null and '' are falsy
Truthy(tok) == tok \notin {NullToken, ""}

IsTokenStillValid(s, t) ==
  IF ~Truthy(s.authToken) THEN FALSE ELSE t < s.tokenExpiryTime

\* variant: the instant two minutes before expiry is not yet near expiry
IsTokenNearExpiry_Strict(s, t) ==
  IF ~Truthy(s.authToken) THEN FALSE
  ELSE t + NearExpiryWindow > s.tokenExpiryTime

IsTokenNearExpiry(s, t) ==
  IF ~Truthy(s.authToken) THEN FALSE
  ELSE t + NearExpiryWindow >= s.tokenExpiryTime

\* the Authorization header is attached only for a valid token
HasBearerHeader(s, t) == Truthy(s.authToken) /\ IsTokenStillValid(s, t)

ClearToken(s) ==
  [s EXCEPT !.authToken = NullToken, !.tokenExpiryTime = 0,
            !.storedToken = "absent", !.storedExpiry = -1]

SaveTokenToStorage(s) ==
  [s EXCEPT !.storedToken = IF Truthy(s.authToken) THEN s.authToken ELSE "",
            !.storedExpiry = s.tokenExpiryTime]

\* Login responses, by what extractTokenFromResponse finds in them:
\*   "token"      a candidate path holds a usable string (> 10 chars)
\*   "noToken"    no candidate path holds a string of more than 10 chars
\*   "httpError"  network error, 10 s timeout or non-2xx
LoginOutcomes == {"token", "noToken", "httpError"}

\* possibleTokenPaths, in the order they are tried
LoginPaths ==
  <<"payload.token", "payload.accessToken", "payload.access_token",
    "payload.authToken", "payload.jwt", "token", "accessToken",
    "access_token", "authToken", "jwt", "data.token", "data.accessToken",
    "result.token">>

\* a response body: the value found at each path (?. gives undefined for a
\* path that is missing at any level)
NoBody == [i \in 1..Len(LoginPaths) |-> Undefined]

\* what POST /login delivers for each outcome
LoginResponse(outcome) ==
  [failed |-> outcome = "httpError",
   body |-> IF outcome = "token"
            THEN [NoBody EXCEPT ![1] = JsValue("string", SessionChars, 0)]
            ELSE NoBody]

\* variant: extractTokenFromResponse accepts a string of any length
ExtractTokenFromResponse_AnyLength(response) ==
  LET usable == {i \in 1..Len(LoginPaths) :
                   JsTruthy(response[i]) /\ response[i].type = "string"}
  IN IF usable = {} THEN JsValue("null", << >>, 0)
     ELSE response[CHOOSE i \in usable : \A j \in usable : i <= j]

ExtractTokenFromResponse(response) ==
  LET usable == {i \in 1..Len(LoginPaths) :
                   /\ JsTruthy(response[i])
                   /\ response[i].type = "string"
                   /\ Len(response[i].chars) > 10}
  IN IF usable = {} THEN JsValue("null", << >>, 0)
     ELSE response[CHOOSE i \in usable : \A j \in usable : i <= j]

\* token.replace(/^Bearer\s+/i, '').trim()
CleanToken(raw) ==
  LET IsSpace(c) == c \in {" ", "\t", "\n"}
      lower == <<"b", "e", "a", "r", "e", "r">>
      upper == <<"B", "E", "A", "R", "E", "R">>
      hasPrefix == /\ Len(raw) >= 7
                   /\ \A i \in 1..6 : raw[i] \in {lower[i], upper[i]}
                   /\ IsSpace(raw[7])
      from == IF hasPrefix THEN 8 ELSE 1
      inked == {k \in from..Len(raw) : ~IsSpace(raw[k])}
  IN IF inked = {} THEN << >>
     ELSE SubSeq(raw, CHOOSE k \in inked : \A j \in inked : k <= j,
                      CHOOSE k \in inked : \A j \in inked : k >= j)

\* values a path of a login response may hold: a number, an object, strings
\* of 10, 11 and 12 characters, a token with its scheme, blanks
LoginValues ==
  {JsValue("number", << >>, 7), JsValue("object", << >>, 0),
   JsValue("string", <<"a", "b", "c", "d", "e", "f", "g", "h", "i", "j">>, 0),
   JsValue("string", <<"a", "b", "c", "d", "e", "f", "g", "h", "i", "j", "k">>, 0),
   JsValue("string", SessionChars, 0),
   JsValue("string", <<"B", "e", "a", "r", "e", "r", " ">> \o SessionChars, 0),
   JsValue("string", <<" ", " ", " ", " ", " ", " ", " ", " ", " ", " ", " ">>, 0)}

\* cleanToken of setAuthToken, for each string a response may hold
CleanTokens ==
  [raw \in {v.chars : v \in {u \in LoginValues : u.type = "string"}} |->
     Text(CleanToken(raw))]

SetAuthToken(s, raw, t) ==
  SaveTokenToStorage([s EXCEPT !.authToken = CleanTokens[raw],
                               !.tokenExpiryTime = t + TokenTTL])

\* refreshToken(), the part after the in-flight check: set the flag and
\* discard the credential (login() is issued by the subscriber)
\* variant: refreshToken() does not raise isRefreshingToken
RefreshTokenStart_NoFlag(s) == ClearToken(s)

RefreshTokenStart(s) == ClearToken([s EXCEPT !.isRefreshingToken = TRUE])

\* variant: a successful login leaves isRefreshingToken as it was
LoginSucceeded_FlagKept(s, raw, t) ==
  [SetAuthToken(s, raw, t) EXCEPT !.refreshTokenSubject = TRUE]

\* variant: a failed login broadcasts nothing
LoginFailed_Silent(s) == [s EXCEPT !.isRefreshingToken = FALSE]


\* login(), map(): a token was found
LoginSucceeded(s, raw, t) ==
  [SetAuthToken(s, raw, t) EXCEPT !.isRefreshingToken = FALSE,
                                  !.refreshTokenSubject = TRUE]

\* login(), catchError()
LoginFailed(s) ==
  [s EXCEPT !.isRefreshingToken = FALSE, !.refreshTokenSubject = FALSE]

\* what map() of login() finds in the response, for each outcome (null
\* when the POST failed and map() is not reached)
LoginOutcomeTokens ==
  [outcome \in LoginOutcomes |->
     IF LoginResponse(outcome).failed THEN JsValue("null", << >>, 0)
     ELSE ExtractTokenFromResponse(LoginResponse(outcome).body)]

LoginIsSuccess(resp) == JsTruthy(LoginOutcomeTokens[resp])

\* ---------------------------------------------------------- order numbers
Digit(d) ==
  CASE d = 0 -> "0" [] d = 1 -> "1" [] d = 2 -> "2" [] d = 3 -> "3"
    [] d = 4 -> "4" [] d = 5 -> "5" [] d = 6 -> "6" [] d = 7 -> "7"
    [] d = 8 -> "8" [] d = 9 -> "9"

DigitChars == {"0", "1", "2", "3", "4", "5", "6", "7", "8", "9"}

\* Number.prototype.toString() of a non-negative integer
RECURSIVE DecString(_)
DecString(n) ==
  IF n < 10 THEN <<Digit(n)>> ELSE DecString(n \div 10) \o <<Digit(n % 10)>>

\* String.prototype.padStart(width, ch)
RECURSIVE PadStart(_, _, _)
PadStart(str, width, ch) ==
  IF Len(str) >= width THEN str ELSE PadStart(<<ch>> \o str, width, ch)

\* String.prototype.slice(-k)
SliceLast(str, k) ==
  IF Len(str) <= k THEN str ELSE SubSeq(str, Len(str) - k + 1, Len(str))

\* Date.now().toString()
DateNowString(t) ==
  DecString(EpochMillions + (t \div 1000000))
    \o PadStart(DecString(t % 1000000), 6, "0")

\* values of Math.floor(Math.random() * 1000) the model draws
RandomSuffixes == {7, 999}

\* variant: the random part is not padded to three digits
GenerateOrderNumber_NoPad(t, r) ==
  <<"H", "B">> \o SliceLast(DateNowString(t), 6) \o DecString(r)

GenerateOrderNumber(t, r) ==
  <<"H", "B">> \o SliceLast(DateNowString(t), 6) \o PadStart(DecString(r), 3, "0")

\* ---------------------------------------------------------------- results
NoOrderNumber == << >>
RemoteOrderNumber == <<"R", "1">>

NoResult ==
  [type |-> "none", nonEmpty |-> FALSE, isSuccess |-> FALSE,
   isOffline |-> FALSE, orderNumber |-> NoOrderNumber]

\* of([]) : the empty list a listing call delivers from its catchError
EmptyList == [NoResult EXCEPT !.type = "list"]
ProductList == [NoResult EXCEPT !.type = "list", !.nonEmpty = TRUE]
\* an error delivered to the subscriber's error callback
ErrorResult == [NoResult EXCEPT !.type = "error"]

CreateFallbackOrderResponse(t, r) ==
  [type |-> "order", nonEmpty |-> FALSE, isSuccess |-> TRUE,
   isOffline |-> TRUE, orderNumber |-> GenerateOrderNumber(t, r)]

\* Remote answers to POST /ClientOrder/Insert that arrive with a 2xx status:
\*   "nullBody"          the body is null
\*   "unrecognizedFalse" none of payload, data, order, result, id, uid is
\*                       present; isSuccess is false
\*   "numbered"          order data with a truthy orderNumber; no isSuccess
\*   "unnumberedFalse"   order data without orderNumber; isSuccess is false
OrderBodies == {"nullBody", "unrecognizedFalse", "numbered", "unnumberedFalse"}

IsNullBody(resp) == resp = "nullBody"
\* response.isSuccess === false
IsSuccessFalse(resp) == resp \in {"unrecognizedFalse", "unnumberedFalse"}

\* extractOrderData: "none" when nothing is recognized (it throws on a null
\* body, which ProcessOrderResponse tests first)
ExtractOrderData(resp) ==
  CASE resp = "numbered" -> "numbered"
    [] resp = "unnumberedFalse" -> "unnumbered"
    [] OTHER -> "none"

ProcessOrderResponse(resp, t, r) ==
  IF IsNullBody(resp) THEN CreateFallbackOrderResponse(t, r)
  ELSE IF ExtractOrderData(resp) = "none"
  THEN [type |-> "order", nonEmpty |-> FALSE, isSuccess |-> TRUE,
        isOffline |-> FALSE, orderNumber |-> GenerateOrderNumber(t, r)]
  ELSE [type |-> "order", nonEmpty |-> FALSE,
        isSuccess |-> ~IsSuccessFalse(resp),
        isOffline |-> FALSE,
        orderNumber |-> IF ExtractOrderData(resp) = "numbered"
                        THEN RemoteOrderNumber
                        ELSE GenerateOrderNumber(t, r)]

\* a remote order response in which order data was found
Recognized(resp) == resp \in OrderBodies /\ ExtractOrderData(resp) # "none"

\* ----------------------------------------------------------- entry points
\* "selling" stands for getSellingProducts and getProductsByCategory, which
\* differ only in the URL; "categories" is getCategoriesWithProducts, whose
\* forkJoin of two GETs is one request that fails when either GET fails
ListingKinds == {"selling", "categories"}
Kinds == ListingKinds \cup {"order"}

\* getSellingProducts and getProductsByCategory pipe retry(1)
HasRetry(kind) == kind = "selling"

\* variant: createOrder has no final catchError
FinalResult_OrderRethrows(kind, t, r) ==
  IF kind = "order" THEN ErrorResult ELSE EmptyList

\* variant: the listing calls have no final catchError
FinalResult_ListingRethrows(kind, t, r) ==
  IF kind = "order" THEN CreateFallbackOrderResponse(t, r) ELSE ErrorResult

\* the last catchError of the entry point
FinalResult(kind, t, r) ==
  IF kind = "order" THEN CreateFallbackOrderResponse(t, r) ELSE EmptyList

\* outcomes of the wrapped request, as the entry point's map() sees them:
\*   listing: "ok" a product array, "empty" an unrecognized or empty shape,
\*            "malformed" a shape that makes the mapping throw
\*   order:   one of OrderBodies
\*   both:    "401" unauthorized, "error" any other transport failure
ListingOutcomes == {"ok", "empty", "malformed", "401", "error"}
OrderOutcomes == OrderBodies \cup {"401", "error"}
Outcomes(kind) == IF kind = "order" THEN OrderOutcomes ELSE ListingOutcomes

\* One running subscription to an entry point.
\*   kind, orderOK   the entry point called and whether its Order transforms
\*   branch          what ensureAuthenticated() returned: "direct" of(true),
\*                   "wait" the subject pipe, "login" the login() observable
\*   pc              "login"/"forcedLogin": its POST /login is in flight;
\*                   "req"/"retryReq": the wrapped request is in flight
\*                   (first invocation / re-invocation after a 401);
\*                   "done"/"unsubscribed": ended (then it leaves subs)
\*   refresh         its POST /login is the one isRefreshingToken stands for
\*   attempt         1, or 2 after retry(1) resubscribed
\*   bearer          the request in flight carries the Authorization header
\*   invocations, forced        requestFn() calls and forced refreshes made
\*                              by this call of makeAuthenticatedRequest
\*   attInvocations, attForced  the same, for the current subscription
NewCall ==
  [kind |-> "none", orderOK |-> TRUE, branch |-> "none", pc |-> "idle",
   refresh |-> FALSE, attempt |-> 1, bearer |-> FALSE,
   invocations |-> 0, forced |-> 0, attInvocations |-> 0, attForced |-> 0]

Running(cr) == cr.pc \in {"login", "forcedLogin", "req", "retryReq"}
AwaitsLogin(cr) == cr.pc \in {"login", "forcedLogin"}

\* The end of a subscription, as seen by its subscriber:
\*   kind         the entry point
\*   phase        its pc before the turn ("idle": it ended in the turn that
\*                called the entry point)
\*   outcome      the HTTP outcome received in the turn ("none" if the turn
\*                is the call itself)
\*   err          the error the entry point's final catchError handled
\*                ("none": a value came through)
\*   result       the value delivered to the subscriber
\*   joinedPending  the call found a refresh in flight and its POST /login
\*                is still in flight at the end of the turn
NoEvent ==
  [kind |-> "none", phase |-> "none", outcome |-> "none", err |-> "none",
   result |-> NoResult, joinedPending |-> FALSE]

\* transformToHesburgerFormat throws (orderData.items is not an array)
TransformThrows(cr) == cr.kind = "order" /\ ~cr.orderOK

\* ------------------------------------------------ one event-loop turn
\* A turn works on a record w holding the service state (svc, net, bg), the
\* other subscriptions (subs), the acting subscription (cr, with acts =
\* TRUE), the event it ends with (ev), the clock and the random draw.
Turn(cr, acts, r) ==
  [svc |-> svc, net |-> net, bg |-> bg,
   subs |-> IF acts /\ BagIn(cr, subs) THEN subs (-) SetToBag({cr}) ELSE subs,
   cr |-> cr, acts |-> acts,
   ev |-> [NoEvent EXCEPT !.kind = cr.kind, !.phase = cr.pc],
   now |-> now, rnd |-> r]

BackgroundTurn == Turn(NewCall, FALSE, 0)

\* the bag b with the refresh mark removed from all its requests
Unmarked(b) ==
  LET U(e) == [e EXCEPT !.refresh = FALSE]
      M(e) == [e EXCEPT !.refresh = TRUE]
      N(e) == IF e \in DOMAIN b THEN b[e] ELSE 0
  IN [x \in {U(e) : e \in DOMAIN b} |-> N(x) + N(M(x))]

\* subscribing to login(): http.post(`${BaseURL}/login`, ...), by the acting
\* subscription (kind "caller") or by the timer, the self-test, forceReauth
IssueLogin(w, kind) ==
  LET w1 == [w EXCEPT !.net.burstLogins =
                         IF w.net.loginResponded THEN @ ELSE @ + 1]
  IN IF kind = "caller" THEN w1
     ELSE [w1 EXCEPT !.net.logins =
                        @ (+) SetToBag({[kind |-> kind, refresh |-> FALSE]})]

\* refreshToken() finds a refresh in flight and returns the subject pipe
RefreshTokenWaits(s) == s.isRefreshingToken

\* refreshToken() when no refresh is in flight, subscribed at once; the
\* refresh mark moves to the POST /login it issues
StartRefresh(w, kind) ==
  LET w1 == [w EXCEPT !.svc = RefreshTokenStart(w.svc),
                      !.subs = Unmarked(@),
                      !.net.logins = Unmarked(@)]
  IN IF kind = "caller"
     THEN [IssueLogin(w1, kind) EXCEPT !.cr.refresh = TRUE]
     ELSE [IssueLogin(w1, kind) EXCEPT
             !.net.logins = (w1.net.logins)
                              (+) SetToBag({[kind |-> kind, refresh |-> TRUE]})]

\* the POST /login that isRefreshingToken stands for is in flight
RefreshPending(w) ==
  /\ w.svc.isRefreshingToken
  /\ \/ \E e \in BagToSet(w.subs) : AwaitsLogin(e) /\ e.refresh
     \/ w.acts /\ AwaitsLogin(w.cr) /\ w.cr.refresh
     \/ \E l \in BagToSet(w.net.logins) : l.refresh

\* requestFn() is invoked: the HTTP request leaves with this.httpOptions
Invoke(w, phase) ==
  [w EXCEPT !.cr.pc = phase,
            !.cr.invocations = @ + 1,
            !.cr.attInvocations = @ + 1,
            !.cr.bearer = HasBearerHeader(w.svc, w.now)]

\* the entry point's final catchError turns the error into a value
Final(w, err) ==
  [w EXCEPT !.cr.pc = "done",
            !.ev.err = err,
            !.ev.result = FinalResult(w.cr.kind, w.now, w.rnd)]

\* ensureAuthenticated(), "refresh in progress" branch, on subscription:
\* the BehaviorSubject replays its current value to the new subscriber
WaitBranchProceeds(w) ==
  w.svc.refreshTokenSubject /\ IsTokenStillValid(w.svc, w.now)

\* retry(1): resubscribe to the observable makeAuthenticatedRequest built,
\* i.e. to what ensureAuthenticated() returned when the entry point was
\* called (of(true), the subject pipe, or the login() observable)
Resubscribe(w) ==
  LET w1 == [w EXCEPT !.cr.attempt = 2,
                      !.cr.attInvocations = 0,
                      !.cr.attForced = 0]
  IN CASE w.cr.branch = "direct" -> Invoke(w1, "req")
       [] w.cr.branch = "wait" ->
            IF WaitBranchProceeds(w1) THEN Invoke(w1, "req")
            ELSE Final(w1, "refreshFailed")
       [] OTHER -> [IssueLogin(w1, "caller") EXCEPT !.cr.pc = "login"]

\* an error leaves makeAuthenticatedRequest
Propagate(w, err) ==
  IF HasRetry(w.cr.kind) /\ w.cr.attempt = 1
  THEN Resubscribe(w)
  ELSE Final(w, err)

\* switchMap(() => requestFn())
AfterAuth(w, phase) ==
  IF TransformThrows(w.cr) THEN Propagate(w, "throw") ELSE Invoke(w, phase)

\* refreshToken() called by a subscription that goes on to `phase` when the
\* refresh succeeds
RefreshToken(w, loginPc, phase) ==
  IF RefreshTokenWaits(w.svc)
  THEN IF w.svc.refreshTokenSubject THEN AfterAuth(w, phase)
       ELSE Propagate(w, "refreshFailed")
  ELSE [StartRefresh(w, "caller") EXCEPT !.cr.pc = loginPc]

\* ensureAuthenticated() followed by the subscription
EnsureAuthenticated(w) ==
  IF IsTokenStillValid(w.svc, w.now)
  THEN AfterAuth([w EXCEPT !.cr.branch = "direct"], "req")
  ELSE IF w.svc.isRefreshingToken
  THEN LET w1 == [w EXCEPT !.cr.branch = "wait",
                           !.ev.joinedPending = RefreshPending(w)]
       IN IF WaitBranchProceeds(w1) THEN AfterAuth(w1, "req")
          ELSE Propagate(w1, "refreshFailed")
  ELSE RefreshToken([w EXCEPT !.cr.branch = "login"], "login", "req")

\* setTimeout(() => this.testTokenWithProductCategories(), 500)
ScheduleSelfTest(w) ==
  IF w.bg.selfTestsStarted < MaxSelfTests
  THEN [w EXCEPT !.bg.selfTestTimers = @ + 1, !.bg.selfTestsStarted = @ + 1]
  ELSE w

\* refreshTokenSubject.next(false) reaches the subscriptions left on the
\* subject by refreshToken().subscribe() (no error callback)
NotifyFailure(w) ==
  [w EXCEPT !.bg.unhandledError = @ \/ (w.bg.subjectWaiters > 0),
            !.bg.subjectWaiters = 0]

\* the login() pipeline when the POST /login settles
\* token: what extractTokenFromResponse returned, null when the POST failed
LoginPipeline(w, token) ==
  IF JsTruthy(token)
  THEN ScheduleSelfTest(
         [w EXCEPT !.svc = LoginSucceeded(w.svc, token.chars, w.now)])
  ELSE NotifyFailure([w EXCEPT !.svc = LoginFailed(w.svc)])

\* variant: a 401 never forces a refresh
ForcesRefresh_Never(w) == FALSE

\* variant: a 401 of the re-invoked request forces a refresh as well
ForcesRefresh_Again(w) == ~w.svc.isRefreshingToken

\* makeAuthenticatedRequest's catchError on a 401 of the first invocation
ForcesRefresh(w) == w.cr.pc = "req" /\ ~w.svc.isRefreshingToken

OnUnauthorized(w) ==
  IF ForcesRefresh(w)
  THEN RefreshToken([w EXCEPT !.cr.forced = @ + 1, !.cr.attForced = @ + 1],
                    "forcedLogin", "retryReq")
  ELSE Propagate(w, "401")

\* the value the entry point's map() produces from a 2xx response
SuccessValue(kind, out, t, r) ==
  IF kind = "order" THEN ProcessOrderResponse(out, t, r)
  ELSE IF out = "ok" THEN ProductList ELSE EmptyList

Deliver(w, out) ==
  [w EXCEPT !.cr.pc = "done",
            !.ev.result = SuccessValue(w.cr.kind, out, w.now, w.rnd)]

OnRequestOutcome(w, out) ==
  CASE out = "401" -> OnUnauthorized(w)
    [] out = "error" -> Propagate(w, "http")
    [] out = "malformed" -> Propagate(w, "throw")
    [] OTHER -> Deliver(w, out)

\* the turn's effects; ev is kept only if the subscription ended
Commit(w) ==
  \E v \in {w} :
    /\ svc' = v.svc
    /\ net' = v.net
    /\ bg' = v.bg
    /\ subs' = IF v.acts /\ Running(v.cr)
               THEN v.subs (+) SetToBag({v.cr}) ELSE v.subs
    /\ ev' = IF v.acts /\ v.cr.pc = "done"
             THEN [v.ev EXCEPT !.joinedPending = @ /\ RefreshPending(v)]
             ELSE NoEvent

Mark(w, out) == [w EXCEPT !.ev.outcome = out]

\* ----------------------------------------------------------------- actions
\* a component calls getSellingProducts / getProductsByCategory /
\* getCategoriesWithProducts / createOrder and subscribes
Call(kind, ok) ==
  /\ calls < MaxCalls
  /\ calls' = calls + 1
  /\ \E r \in RandomSuffixes :
       Commit(EnsureAuthenticated(
         [Turn([NewCall EXCEPT !.kind = kind, !.orderOK = ok], TRUE, r)
            EXCEPT !.net.coldCalls =
                     IF net.loginResponded \/ IsTokenStillValid(svc, now)
                     THEN @ ELSE @ + 1]))
  /\ UNCHANGED <<now, advances, cartVars, probe>>

\* the POST /login a subscription is waiting for settles
CallerLoginResponse(cr, resp) ==
  /\ BagIn(cr, subs)
  /\ AwaitsLogin(cr)
  /\ \E r \in RandomSuffixes :
       \E w1 \in {LoginPipeline(
                     Mark([Turn(cr, TRUE, r) EXCEPT !.net.loginResponded = TRUE,
                                                    !.cr.refresh = FALSE],
                          resp), LoginOutcomeTokens[resp])} :
         IF LoginIsSuccess(resp)
         THEN Commit(AfterAuth(w1, IF cr.pc = "login"
                                   THEN "req" ELSE "retryReq"))
         ELSE Commit(Propagate(w1, "loginFailed"))
  /\ UNCHANGED <<now, advances, calls, cartVars, probe>>

\* the wrapped request of a subscription settles
RequestResponse(cr, out) ==
  /\ BagIn(cr, subs)
  /\ cr.pc \in {"req", "retryReq"}
  /\ out \in Outcomes(cr.kind)
  /\ \E r \in RandomSuffixes :
       \E w0 \in {Mark(Turn(cr, TRUE, r), out)} :
         Commit(OnRequestOutcome(w0, out))
  /\ UNCHANGED <<now, advances, calls, cartVars, probe>>

\* MenuComponent.ngOnDestroy unsubscribes its pending listing calls; the
\* pending HTTP request is cancelled and its pipeline never runs
Unsubscribe(cr) ==
  /\ BagIn(cr, subs)
  /\ cr.kind \in ListingKinds
  /\ Commit([Turn(cr, TRUE, 0) EXCEPT !.cr.pc = "unsubscribed"])
  /\ UNCHANGED <<now, advances, calls, cartVars, probe>>

\* setInterval callback of initializeTokenManagement, when it refreshes
TimerTick ==
  /\ bg.timerRefreshes < MaxTimerRefreshes
  /\ Truthy(svc.authToken)
  /\ IsTokenNearExpiry(svc, now)
  /\ ~svc.isRefreshingToken
  /\ LET w0 == [BackgroundTurn EXCEPT !.bg.timerRefreshes = @ + 1]
     IN IF RefreshTokenWaits(w0.svc)
        THEN Commit(w0)
        ELSE Commit(StartRefresh(w0, "timer"))
  /\ UNCHANGED <<now, advances, calls, cartVars, probe>>

\* forceReauth(), subscribed by MenuComponent.forceReauth
ForceReauth ==
  /\ bg.forceReauths < MaxForceReauth
  /\ Commit(IssueLogin(
       [BackgroundTurn EXCEPT
          !.svc = [ClearToken(svc) EXCEPT !.isRefreshingToken = FALSE],
          !.bg.forceReauths = @ + 1], "force"))
  /\ UNCHANGED <<now, advances, calls, cartVars, probe>>

\* a POST /login subscribed by the timer, the self-test or forceReauth
\* settles; only the self-test's subscription has no error callback
BackgroundLoginResponse(l, resp) ==
  /\ BagIn(l, net.logins)
  /\ LET w0 == [BackgroundTurn EXCEPT
                  !.net.logins = @ (-) SetToBag({l}),
                  !.net.loginResponded = TRUE]
         w1 == LoginPipeline(w0, LoginOutcomeTokens[resp])
     IN IF ~LoginIsSuccess(resp) /\ l.kind = "selftest"
        THEN Commit([w1 EXCEPT !.bg.unhandledError = TRUE])
        ELSE Commit(w1)
  /\ UNCHANGED <<now, advances, calls, cartVars, probe>>

\* the 500 ms timeout fires: testTokenWithProductCategories()
SelfTestFire ==
  /\ bg.selfTestTimers > 0
  /\ Commit([BackgroundTurn EXCEPT
               !.bg.selfTestTimers = @ - 1,
               !.bg.selfTestReqs = IF Truthy(svc.authToken) THEN @ + 1 ELSE @])
  /\ UNCHANGED <<now, advances, calls, cartVars, probe>>

\* the self-test's GET /ProductCategory/FindMany settles
SelfTestResponse(out) ==
  /\ bg.selfTestReqs > 0
  /\ LET w0 == [BackgroundTurn EXCEPT !.bg.selfTestReqs = @ - 1]
     IN IF out # "401" THEN Commit(w0)
        ELSE IF RefreshTokenWaits(w0.svc)
        THEN IF w0.svc.refreshTokenSubject
             THEN Commit([w0 EXCEPT !.bg.subjectWaiters = @ + 1])
             ELSE Commit([w0 EXCEPT !.bg.unhandledError = TRUE])
        ELSE Commit(StartRefresh(w0, "selftest"))
  /\ UNCHANGED <<now, advances, calls, cartVars, probe>>

\* time passes
ClockStep == NearExpiryWindow

AdvanceTime ==
  /\ advances < MaxAdvances
  /\ now' = now + ClockStep
  /\ advances' = advances + 1
  /\ ev' = NoEvent
  /\ UNCHANGED <<svc, net, bg, subs, calls, cartVars, probe>>

\* variant: the interval callback refreshes whenever a credential exists
IntervalCallback_Always(w) ==
  IF Truthy(w.svc.authToken) /\ ~w.svc.isRefreshingToken
  THEN StartRefresh([w EXCEPT !.bg.timerRefreshes = @ + 1], "timer")
  ELSE w

\* the setInterval callback of initializeTokenManagement
IntervalCallback(w) ==
  IF /\ Truthy(w.svc.authToken)
     /\ IsTokenNearExpiry(w.svc, w.now)
     /\ ~w.svc.isRefreshingToken
  THEN StartRefresh([w EXCEPT !.bg.timerRefreshes = @ + 1], "timer")
  ELSE w

\* half a timer period passes; at each full period since the constructor
\* the interval callback runs
ClockTick ==
  /\ advances < MaxAdvances
  /\ now' = now + TimerPeriod \div 2
  /\ advances' = advances + 1
  /\ IF (now + TimerPeriod \div 2) % TimerPeriod = 0
     THEN Commit(IntervalCallback(
            [BackgroundTurn EXCEPT !.now = now + TimerPeriod \div 2]))
     ELSE ev' = NoEvent /\ UNCHANGED <<svc, net, bg, subs>>
  /\ UNCHANGED <<calls, cartVars, probe>>

\* ------------------------------------------------------------------- cart
\* Products the menu offers: two of them carry the same id (the same
\* product fetched twice, with a changed price)
Products ==
  {[id |-> 1, price |-> 250], [id |-> 1, price |-> 300],
   [id |-> 5, price |-> 10]}

\* the ids the operations are called with: those of Products and one of no
\* product
ProductIds == {p.id : p \in Products} \cup {9}
Quantities == (0 - 1)..3

\* localStorage['hesburger_cart']: absent, or the JSON text of the cart
NoCartStorage == [present |-> FALSE, items |-> << >>]

\* JSON.stringify of a cart line: the Date becomes an ISO string
StringifyItem(item) == [item EXCEPT !.addedAt.type = "string"]

\* JSON.parse of a cart line (no reviver): the ISO string stays a string
ParseItem(text) == text

\* variant: find() never finds the product's line
FindItem_Never(c, productId) == 0

\* currentCart.find(item => item.id === productId): the index of the first
\* such line, 0 if there is none
FindItem(c, productId) ==
  IF \E i \in 1..Len(c) : c[i].id = productId
  THEN CHOOSE i \in 1..Len(c) :
         /\ c[i].id = productId
         /\ \A j \in 1..(i - 1) : c[j].id # productId
  ELSE 0

\* { ...product, quantity, addedAt: new Date() }
NewCartItem(product, quantity, t) ==
  [id |-> product.id, price |-> product.price, quantity |-> quantity,
   addedAt |-> [type |-> "Date", ms |-> t]]

SaveCartToStorage(c) ==
  [present |-> TRUE, items |-> [i \in 1..Len(c) |-> StringifyItem(c[i])]]

RemoveCartFromStorage == NoCartStorage

\* the cartSubject value the constructor ends with
LoadCartFromStorage(st) ==
  IF st.present
  THEN [i \in 1..Len(st.items) |-> ParseItem(st.items[i])]
  ELSE << >>

\* variant: a merged line moves to the end of the cart
CartWithAdded_MergedLast(c, product, quantity, t) ==
  LET i == FindItem(c, product.id)
  IN IF i > 0
     THEN Append(SelectSeq(c, LAMBDA item : item.id # product.id),
                 [c[i] EXCEPT !.quantity = @ + quantity])
     ELSE Append(c, NewCartItem(product, quantity, t))

\* the cart after addToCart's find / += / push
CartWithAdded(c, product, quantity, t) ==
  LET i == FindItem(c, product.id)
  IN IF i > 0 THEN [c EXCEPT ![i].quantity = @ + quantity]
     ELSE Append(c, NewCartItem(product, quantity, t))

\* value.filter(item => item.id !== productId)
CartWithout(c, productId) ==
  SelectSeq(c, LAMBDA item : item.id # productId)

\* variant: the new quantity is added to the line's quantity
CartWithQuantity_Added(c, i, quantity) ==
  [c EXCEPT ![i].quantity = @ + quantity]

\* item.quantity = quantity
CartWithQuantity(c, i, quantity) == [c EXCEPT ![i].quantity = quantity]

\* variant: the quantities are left out of the total
GetCartTotal_PricesOnly(c) ==
  LET total[k \in 0..Len(c)] ==
        IF k = 0 THEN 0 ELSE total[k - 1] + c[k].price
  IN total[Len(c)]

\* reduce((total, item) => total + (item.price * item.quantity), 0): total[k]
\* is the accumulator after the first k lines
GetCartTotal(c) ==
  LET total[k \in 0..Len(c)] ==
        IF k = 0 THEN 0 ELSE total[k - 1] + (c[k].price * c[k].quantity)
  IN total[Len(c)]

\* reduce((count, item) => count + item.quantity, 0)
GetCartItemCount(c) ==
  LET count[k \in 0..Len(c)] ==
        IF k = 0 THEN 0 ELSE count[k - 1] + c[k].quantity
  IN count[Len(c)]

\* The components subscribed to cart$: MenuComponent and CartComponent
CartSubscribers == {"menu", "cartPage"}
NotSubscribed == [active |-> FALSE, last |-> << >>]

NoCartOp ==
  [op |-> "none", id |-> 0, price |-> 0, quantity |-> 0,
   effects |-> << >>, before |-> << >>]

\* A cart operation works on a record h: the subject's value, the storage
\* entry, the subscribers, and the effects made so far, in order
Handler ==
  [cart |-> cart, storage |-> cartStorage, seen |-> cartSeen,
   effects |-> << >>]

\* an effect of a cart operation: what was done, and the subscribers whose
\* callback ran in it
Effect(e, to) == [e |-> e, to |-> to]

\* cartSubject.next(v): the value is set and every subscriber's callback
\* runs, before next() returns
CartNext(h, v) ==
  [h EXCEPT !.cart = v,
            !.seen = [s \in CartSubscribers |->
                        IF h.seen[s].active
                        THEN [active |-> TRUE, last |-> v] ELSE h.seen[s]],
            !.effects =
              Append(@, Effect("next", {s \in CartSubscribers :
                                          h.seen[s].active}))]

\* saveCartToStorage(): localStorage.setItem of the subject's value
WriteCart(h) ==
  [h EXCEPT !.storage = SaveCartToStorage(h.cart),
            !.effects = Append(@, Effect("setItem", {}))]

\* removeCartFromStorage()
EraseCart(h) ==
  [h EXCEPT !.storage = RemoveCartFromStorage,
            !.effects = Append(@, Effect("removeItem", {}))]

\* variant: addToCart saves before it publishes
AddToCartBody_SaveFirst(h, product, quantity, t) ==
  LET v == CartWithAdded(h.cart, product, quantity, t)
  IN CartNext([h EXCEPT !.storage = SaveCartToStorage(v),
                        !.effects = Append(@, Effect("setItem", {}))], v)

AddToCartBody(h, product, quantity, t) ==
  WriteCart(CartNext(h, CartWithAdded(h.cart, product, quantity, t)))

\* variant: removeFromCart does not save
RemoveFromCartBody_NoSave(h, productId) ==
  CartNext(h, CartWithout(h.cart, productId))

RemoveFromCartBody(h, productId) ==
  WriteCart(CartNext(h, CartWithout(h.cart, productId)))

UpdateCartQuantityBody(h, productId, quantity) ==
  LET i == FindItem(h.cart, productId)
  IN IF i = 0 THEN h
     ELSE IF quantity <= 0 THEN RemoveFromCartBody(h, productId)
     ELSE WriteCart(CartNext(h, CartWithQuantity(h.cart, i, quantity)))

ClearCartBody(h) == EraseCart(CartNext(h, << >>))

\* the quantities stay within the model's bound, and above -2
WithinBound(c) ==
  \A i \in 1..Len(c) :
    c[i].quantity <= MaxLineQuantity /\ c[i].quantity + 1 >= 0

CommitCart(h, op) ==
  \E v \in {h} :
    /\ WithinBound(v.cart)
    /\ cart' = v.cart
    /\ cartStorage' = v.storage
    /\ cartSeen' = v.seen
    /\ cartOp' = [op EXCEPT !.effects = v.effects]

AddToCart(product, quantity) ==
  /\ CommitCart(AddToCartBody(Handler, product, quantity, now),
                [NoCartOp EXCEPT !.op = "addToCart", !.id = product.id,
                                 !.price = product.price,
                                 !.quantity = quantity])
  /\ UNCHANGED <<authVars, checkout, probe>>

RemoveFromCart(productId) ==
  /\ CommitCart(RemoveFromCartBody(Handler, productId),
                [NoCartOp EXCEPT !.op = "removeFromCart", !.id = productId])
  /\ UNCHANGED <<authVars, checkout, probe>>

UpdateCartQuantity(productId, quantity) ==
  /\ CommitCart(UpdateCartQuantityBody(Handler, productId, quantity),
                [NoCartOp EXCEPT !.op = "updateCartQuantity",
                                 !.id = productId, !.quantity = quantity])
  /\ UNCHANGED <<authVars, checkout, probe>>

\* CartComponent.updateQuantity / MenuComponent.updateProductQuantity: the
\* component calls removeFromCart or updateCartQuantity
UpdateQuantity(productId, quantity) ==
  IF quantity <= 0
  THEN RemoveFromCart(productId)
  ELSE UpdateCartQuantity(productId, quantity)

ClearCart ==
  /\ CommitCart(ClearCartBody(Handler), [NoCartOp EXCEPT !.op = "clearCart"])
  /\ UNCHANGED <<authVars, checkout, probe>>

\* CheckoutComponent before ngOnInit, with no order in the local history
NoCheckout ==
  [cart |-> << >>, selectedPaymentMethod |-> FALSE, formValid |-> FALSE,
   isProcessingPayment |-> FALSE, showOrderConfirmation |-> FALSE,
   paying |-> << >>, orders |-> << >>, last |-> "none"]

\* CheckoutComponent.ngOnInit: a new component, whose cart is what
\* localStorage 'hesburger_cart' holds
OpenCheckout ==
  /\ checkout.paying = << >>
  /\ checkout' = [NoCheckout EXCEPT !.orders = checkout.orders,
                                   !.cart = LoadCartFromStorage(cartStorage),
                                   !.last = "opened"]
  /\ UNCHANGED <<authVars, cart, cartStorage, cartOp, cartSeen, probe>>

\* the customer picks a payment method (or none yet) and edits the form
FillCheckout(method, valid) ==
  /\ checkout.last # "none"
  /\ checkout' = [checkout EXCEPT !.selectedPaymentMethod = method,
                                 !.formValid = valid, !.last = "filled"]
  /\ UNCHANGED <<authVars, cart, cartStorage, cartOp, cartSeen, probe>>

\* processOrder() up to `await this.simulatePaymentProcess()`: the three
\* validations, then the call waits for the 2 s timer; paying holds, per
\* waiting call, the cart the component had when the call was made
ProcessOrder ==
  /\ checkout.last # "none"
  /\ Len(checkout.orders) + Len(checkout.paying) < MaxOrders
  /\ checkout' =
       IF \/ ~checkout.selectedPaymentMethod
          \/ ~checkout.formValid
          \/ checkout.cart = << >>
       THEN [checkout EXCEPT !.last = "rejected"]
       ELSE [checkout EXCEPT !.isProcessingPayment = TRUE,
                             !.paying = Append(@, checkout.cart),
                             !.last = "paying"]
  /\ UNCHANGED <<authVars, cart, cartStorage, cartOp, cartSeen, probe>>

\* processOrder() after the await, for the call that has waited longest:
\* orderData is built from this.cart as it is now, saveOrder appends it to
\* 'hesburger_orders', the service's cart and this.cart are cleared and the
\* confirmation is shown
PaymentDone ==
  /\ checkout.paying # << >>
  /\ CommitCart(ClearCartBody(Handler), [NoCartOp EXCEPT !.op = "clearCart"])
  /\ checkout' = [checkout EXCEPT
                    !.orders = Append(@, [items |-> checkout.cart]),
                    !.cart = << >>,
                    !.showOrderConfirmation = TRUE,
                    !.isProcessingPayment = FALSE,
                    !.paying = Tail(@),
                    !.last = "completed"]
  /\ UNCHANGED <<authVars, probe>>

\* a caller reads getCartTotal() / getCartItemCount(): the value returned,
\* with the cart it was computed on
GetCartTotalCall ==
  /\ probe' = [fn |-> "getCartTotal", arg |-> cart,
               value |-> GetCartTotal(cart)]
  /\ UNCHANGED <<authVars, cartVars>>

GetCartItemCountCall ==
  /\ probe' = [fn |-> "getCartItemCount", arg |-> cart,
               value |-> GetCartItemCount(cart)]
  /\ UNCHANGED <<authVars, cartVars>>

\* a component subscribes to cart$: the BehaviorSubject replays its value
SubscribeCart(s) ==
  /\ ~cartSeen[s].active
  /\ cartSeen' = [cartSeen EXCEPT ![s] = [active |-> TRUE, last |-> cart]]
  /\ cartOp' = NoCartOp
  /\ UNCHANGED <<authVars, cart, cartStorage, checkout, probe>>

\* ngOnDestroy of the component
UnsubscribeCart(s) ==
  /\ cartSeen[s].active
  /\ cartSeen' = [cartSeen EXCEPT ![s] = NotSubscribed]
  /\ cartOp' = NoCartOp
  /\ UNCHANGED <<authVars, cart, cartStorage, checkout, probe>>

\* ---------------------------------------------------------- initial state
\* after the constructor: loadTokenFromStorage keeps a stored credential
\* only if it is still valid
FreshService ==
  [authToken |-> NullToken, tokenExpiryTime |-> 0,
   isRefreshingToken |-> FALSE, refreshTokenSubject |-> FALSE,
   storedToken |-> "absent", storedExpiry |-> -1]

LoadedService ==
  [FreshService EXCEPT !.authToken = SessionToken,
                       !.tokenExpiryTime = NearExpiryWindow + TimerPeriod,
                       !.storedToken = SessionToken,
                       !.storedExpiry = NearExpiryWindow + TimerPeriod]

\* nothing in flight, nothing scheduled
NoRequests ==
  [logins |-> EmptyBag, burstLogins |-> 0, coldCalls |-> 0,
   loginResponded |-> FALSE]

NoBackground ==
  [selfTestTimers |-> 0, selfTestReqs |-> 0, subjectWaiters |-> 0,
   selfTestsStarted |-> 0, timerRefreshes |-> 0, forceReauths |-> 0,
   unhandledError |-> FALSE]

InitAuth ==
  /\ now = 0
  /\ advances = 0
  /\ svc \in {FreshService, LoadedService}
  /\ net = NoRequests
  /\ bg = NoBackground
  /\ subs = EmptyBag
  /\ calls = 0
  /\ ev = NoEvent

\* the token fields after loadTokenFromStorage(), at time t, in a new process
\* whose localStorage is that of s
LoadTokenFromStorage(s, t) ==
  LET fresh == [FreshService EXCEPT !.storedToken = s.storedToken,
                                    !.storedExpiry = s.storedExpiry]
      loaded == [fresh EXCEPT !.authToken = s.storedToken,
                              !.tokenExpiryTime = s.storedExpiry]
  IN IF s.storedToken \notin {"absent", ""} /\ s.storedExpiry # 0 - 1
     THEN IF IsTokenStillValid(loaded, t) THEN loaded ELSE ClearToken(loaded)
     ELSE fresh

\* The page is loaded again: a new HesburgerApiService is constructed over
\* the same localStorage; the requests, timers and subscribers of the old
\* page are gone
Restart ==
  /\ svc' = LoadTokenFromStorage(svc, now)
  /\ net' = NoRequests
  /\ bg' = NoBackground
  /\ subs' = EmptyBag
  /\ ev' = NoEvent
  /\ cart' = LoadCartFromStorage(cartStorage)
  /\ cartSeen' = [s \in CartSubscribers |-> NotSubscribed]
  /\ cartOp' = [NoCartOp EXCEPT !.op = "restart", !.before = cart]
  /\ checkout' = [NoCheckout EXCEPT !.orders = checkout.orders]
  /\ UNCHANGED <<now, advances, calls, cartStorage, probe>>

Init ==
  /\ InitAuth
  /\ cart = << >>
  /\ cartStorage = NoCartStorage
  /\ cartOp = NoCartOp
  /\ cartSeen = [s \in CartSubscribers |-> NotSubscribed]
  /\ checkout = NoCheckout
  /\ probe = NoProbe

Next ==
  \/ \E kind \in Kinds, ok \in BOOLEAN :
       /\ (kind # "order" => ok)
       /\ Call(kind, ok)
  \/ \E cr \in BagToSet(subs), resp \in LoginOutcomes :
       CallerLoginResponse(cr, resp)
  \/ \E cr \in BagToSet(subs), out \in ListingOutcomes \cup OrderOutcomes :
       RequestResponse(cr, out)
  \/ \E cr \in BagToSet(subs) : Unsubscribe(cr)
  \/ TimerTick
  \/ \E l \in BagToSet(net.logins), resp \in LoginOutcomes :
       BackgroundLoginResponse(l, resp)
  \/ SelfTestFire
  \/ \E out \in {"ok", "401", "error"} : SelfTestResponse(out)
  \/ AdvanceTime

Spec == Init /\ [][Next]_vars

\* the cart operations, on a service whose storage held no cart
NextCart ==
  \/ \E product \in Products, quantity \in Quantities :
       AddToCart(product, quantity)
  \/ \E productId \in ProductIds : RemoveFromCart(productId)
  \/ \E productId \in ProductIds, quantity \in Quantities :
       UpdateCartQuantity(productId, quantity)
  \/ \E productId \in ProductIds, quantity \in Quantities :
       UpdateQuantity(productId, quantity)
  \/ ClearCart
  \/ Restart

SpecCart == Init /\ [][NextCart]_vars

\* the cart operations with MenuComponent and CartComponent coming and
\* going; quantities 0 and 2 only
NextCartSeen ==
  \/ \E product \in Products : AddToCart(product, 2)
  \/ \E productId \in ProductIds : RemoveFromCart(productId)
  \/ \E productId \in ProductIds, quantity \in {0, 2} :
       UpdateCartQuantity(productId, quantity)
  \/ ClearCart
  \/ \E s \in CartSubscribers : SubscribeCart(s)
  \/ \E s \in CartSubscribers : UnsubscribeCart(s)
  \/ Restart

SpecCartSeen == Init /\ [][NextCartSeen]_vars

\* additions to the cart and the two sums read between them
NextCartSums ==
  \/ \E product \in {p \in Products : p.price <= 250}, quantity \in {2, 3} :
       AddToCart(product, quantity)
  \/ ClearCart
  \/ GetCartTotalCall
  \/ GetCartItemCountCall

SpecCartSums == Init /\ [][NextCartSums]_vars

\* the customer fills the cart, opens the checkout page and pays
NextCheckout ==
  \/ \E product \in Products :
       GetCartItemCount(cart) < 2 /\ AddToCart(product, 1)
  \/ OpenCheckout
  \/ \E method, valid \in BOOLEAN : FillCheckout(method, valid)
  \/ ProcessOrder
  \/ PaymentDone

SpecCheckout == Init /\ [][NextCheckout]_vars

\* ------------------------------------------- the token predicates alone
\* instants on both sides of the two-minute window and of the lifetime
TokenInstants ==
  {0, 1, NearExpiryWindow - 1, NearExpiryWindow, NearExpiryWindow + 1,
   TokenTTL}

\* the token fields the predicates may find: no token with expiry 0 (the
\* field's initial value, and clearToken), or a token, possibly the empty
\* string, with any expiry (setAuthToken, loadTokenFromStorage, and time
\* passing since)
TokenFields ==
  {FreshService} \cup
  {[FreshService EXCEPT !.authToken = tok, !.tokenExpiryTime = e,
                        !.storedToken = tok, !.storedExpiry = e] :
     tok \in {"", SessionToken}, e \in TokenInstants}

InitToken ==
  /\ now \in TokenInstants
  /\ svc \in TokenFields
  /\ advances = 0
  /\ net = NoRequests
  /\ bg = NoBackground
  /\ subs = EmptyBag
  /\ calls = 0
  /\ ev = NoEvent
  /\ cart = << >>
  /\ cartStorage = NoCartStorage
  /\ cartOp = NoCartOp
  /\ cartSeen = [s \in CartSubscribers |-> NotSubscribed]
  /\ checkout = NoCheckout
  /\ probe = NoProbe

TokenInput == [token |-> svc.authToken, expiry |-> svc.tokenExpiryTime,
               now |-> now]

IsTokenStillValidCall ==
  /\ probe' = [fn |-> "isTokenStillValid", arg |-> TokenInput,
               value |-> IsTokenStillValid(svc, now)]
  /\ UNCHANGED <<authVars, cartVars>>

IsTokenNearExpiryCall ==
  /\ probe' = [fn |-> "isTokenNearExpiry", arg |-> TokenInput,
               value |-> IsTokenNearExpiry(svc, now)]
  /\ UNCHANGED <<authVars, cartVars>>

NextToken == IsTokenStillValidCall \/ IsTokenNearExpiryCall

SpecToken == InitToken /\ [][NextToken]_vars

\* ------------------------------------------------ raw products of the API
\* String(v) of a truthy value, or of ''
JsString(v) ==
  CASE v.type = "string" -> v.chars
    [] v.type = "number" -> DecString(v.n)
    [] v.type = "boolean" -> <<"t", "r", "u", "e">>
    [] v.type = "array" -> v.chars
    [] v.type = "object" -> <<"[", "o", "b", "j", "e", "c", "t", " ", "O", "b", "j", "e", "c", "t", "]">>
    [] OTHER -> << >>

\* String.prototype.toLowerCase(), character by character
ToLowerCase(str) ==
  LET lower ==
        "A" :> "a" @@ "B" :> "b" @@ "C" :> "c" @@ "D" :> "d" @@ "E" :> "e" @@
        "F" :> "f" @@ "G" :> "g" @@ "H" :> "h" @@ "I" :> "i" @@ "J" :> "j" @@
        "K" :> "k" @@ "L" :> "l" @@ "M" :> "m" @@ "N" :> "n" @@ "O" :> "o" @@
        "P" :> "p" @@ "Q" :> "q" @@ "R" :> "r" @@ "S" :> "s" @@ "T" :> "t" @@
        "U" :> "u" @@ "V" :> "v" @@ "W" :> "w" @@ "X" :> "x" @@ "Y" :> "y" @@
        "Z" :> "z"
  IN [i \in 1..Len(str) |->
        IF str[i] \in DOMAIN lower THEN lower[str[i]] ELSE str[i]]

\* String.prototype.includes(key)
Includes(str, key) ==
  \E i \in 1..(Len(str) - Len(key) + 1) :
    SubSeq(str, i, i + Len(key) - 1) = key

\* String(a || b || '').toLowerCase()
LowerText(a, b) ==
  ToLowerCase(JsString(IF JsTruthy(a) THEN a
                       ELSE IF JsTruthy(b) THEN b
                       ELSE JsValue("string", << >>, 0)))

\* mapApiCategory's `${name} ${category} ${alias}`
SearchText(p) ==
  LowerText(p.name, Undefined) \o <<" ">>
    \o LowerText(p.category, p.categoryName) \o <<" ">>
    \o LowerText(p.alias, Undefined)

\* the tests of mapApiCategory, in the order they are made
CategoryRules ==
  <<[category |-> "burgers",
     keys |-> {<<"b", "u", "r", "g", "e", "r">>,
              <<"b", "i", "g", " ", "m", "a", "c">>,
              <<"w", "h", "o", "p", "p", "e", "r">>}],
    [category |-> "chicken",
     keys |-> {<<"c", "h", "i", "c", "k", "e", "n">>,
              <<"w", "i", "n", "g">>,
              <<"n", "u", "g", "g", "e", "t">>}],
    [category |-> "sides",
     keys |-> {<<"f", "r", "i", "e", "s">>,
              <<"r", "i", "n", "g">>,
              <<"o", "n", "i", "o", "n">>,
              <<"p", "o", "t", "a", "t", "o">>}],
    [category |-> "drinks",
     keys |-> {<<"c", "o", "l", "a">>,
              <<"d", "r", "i", "n", "k">>,
              <<"j", "u", "i", "c", "e">>,
              <<"c", "o", "f", "f", "e", "e">>,
              <<"t", "e", "a">>}],
    [category |-> "desserts",
     keys |-> {<<"i", "c", "e", " ", "c", "r", "e", "a", "m">>,
              <<"d", "e", "s", "s", "e", "r", "t">>,
              <<"c", "a", "k", "e">>,
              <<"p", "i", "e">>}]>>

\* the rules whose test succeeds on p
Matching(p) ==
  {i \in 1..Len(CategoryRules) :
     \E key \in CategoryRules[i].keys : Includes(SearchText(p), key)}

\* variant: the last test that succeeds decides
MapApiCategory_LastMatch(p) ==
  IF Matching(p) = {} THEN "other"
  ELSE CategoryRules[CHOOSE i \in Matching(p) :
                       \A j \in Matching(p) : j <= i].category

MapApiCategory(p) ==
  IF Matching(p) = {} THEN "other"
  ELSE CategoryRules[CHOOSE i \in Matching(p) :
                       \A j \in Matching(p) : i <= j].category

\* no price field is present
NoPrices ==
  [locationPrices |-> [type |-> "undefined", entries |-> << >>],
   unitPriceWithVat |-> Undefined,
   price |-> Undefined, unitPrice |-> Undefined, cost |-> Undefined,
   amount |-> Undefined, basePrice |-> Undefined]

\* raw products by their name, category, categoryName and alias: absent,
\* strings in mixed case, and values that are not strings
RawProducts ==
  {[name |-> name, category |-> category, categoryName |-> categoryName,
    alias |-> alias, prices |-> NoPrices] :
     name \in {Undefined,
              JsValue("string", <<"C", "h", "i", "c", "k", "e", "n", " ", "B", "u", "r", "g", "e", "r">>, 0),
              JsValue("string", <<"B", "i", "g">>, 0),
              JsValue("string", <<"O", "n", "i", "o", "n", " ", "R", "i", "n", "g", "s">>, 0),
              JsValue("string", <<"I", "c", "e">>, 0),
              JsValue("string", <<"S", "a", "l", "a", "d">>, 0),
              JsValue("number", << >>, 7)},
     category \in {Undefined,
                  JsValue("null", << >>, 0),
                  JsValue("string", <<"M", "a", "c">>, 0),
                  JsValue("string", <<"C", "r", "e", "a", "m">>, 0),
                  JsValue("string", <<"D", "r", "i", "n", "k", "s">>, 0),
                  JsValue("number", << >>, 0),
                  JsValue("object", << >>, 0)},
     categoryName \in {Undefined,
                      JsValue("string", <<"D", "e", "s", "s", "e", "r", "t", "s">>, 0),
                      JsValue("string", <<"C", "h", "i", "c", "k", "e", "n">>, 0)},
     alias \in {Undefined,
               JsValue("string", <<"A", "p", "p", "l", "e", " ", "P", "i", "e">>, 0),
               JsValue("array", <<"T", "e", "a">>, 0),
               JsValue("boolean", << >>, 1)}}

ProbeInit(inputs) ==
  /\ InitAuth
  /\ cart = << >>
  /\ cartStorage = NoCartStorage
  /\ cartOp = NoCartOp
  /\ cartSeen = [s \in CartSubscribers |-> NotSubscribed]
  /\ checkout = NoCheckout
  /\ probe \in {[fn |-> "none", arg |-> p] : p \in inputs}

MapApiCategoryCall ==
  /\ probe' = [fn |-> "mapApiCategory", arg |-> probe.arg,
               value |-> MapApiCategory(probe.arg)]
  /\ UNCHANGED <<authVars, cartVars>>

SpecCategory == ProbeInit(RawProducts) /\ [][MapApiCategoryCall]_vars

\* ----------------------------------------------------------------- prices
\* Prices are counted in thousandths: 12.345 is 12345.
\* the number of leading characters of str that are in set
PrefixLen(str, set) ==
  CHOOSE k \in 0..Len(str) :
    /\ \A i \in 1..k : str[i] \in set
    /\ k < Len(str) => str[k + 1] \notin set

\* the value of a sequence of decimal digits
RECURSIVE DecValue(_)
DecValue(digits) ==
  IF digits = << >> THEN 0
  ELSE 10 * DecValue(SubSeq(digits, 1, Len(digits) - 1))
         + (CHOOSE d \in 0..9 : Digit(d) = digits[Len(digits)])

\* parseFloat(str), in thousandths: leading blanks, a sign, digits, a point
\* and digits (three of them are kept); what follows is ignored; NaN when
\* there is no digit
ParseFloat(str) ==
  LET s1 == SubSeq(str, PrefixLen(str, {" "}) + 1, Len(str))
      signed == s1 # << >> /\ s1[1] \in {"-", "+"}
      s2 == IF signed THEN Tail(s1) ELSE s1
      int == SubSeq(s2, 1, PrefixLen(s2, DigitChars))
      s3 == SubSeq(s2, Len(int) + 1, Len(s2))
      s4 == IF s3 # << >> /\ s3[1] = "." THEN Tail(s3) ELSE << >>
      frac == SubSeq(s4, 1, PrefixLen(s4, DigitChars))
      frac3 == SubSeq(frac \o <<"0", "0", "0">>, 1, 3)
      abs == 1000 * DecValue(int) + DecValue(frac3)
  IN [nan |-> int = << >> /\ frac = << >>,
      n |-> IF signed /\ s1[1] = "-" THEN 0 - abs ELSE abs]

\* Math.round(x * 100) / 100 of a positive x
RoundToCents(x) == ((x + 5) \div 10) * 10

\* typeof v === 'number' && v > 0
PositiveNumber(v) == v.type = "number" /\ v.n > 0

\* what extractPriceEnhanced's loop over priceFields takes from a field: the
\* positive number, the positive parseFloat of the string, or 0 for nothing
FieldPrice(v) ==
  IF PositiveNumber(v) THEN v.n
  ELSE IF v.type = "string" /\ ~ParseFloat(v.chars).nan
            /\ ParseFloat(v.chars).n > 0
       THEN ParseFloat(v.chars).n
  ELSE 0

\* generateCategoryBasedPrice: [min, max] per category
BasePrices ==
  [burgers |-> <<15, 35>>, chicken |-> <<12, 28>>, sides |-> <<8, 18>>,
   drinks |-> <<5, 12>>, desserts |-> <<6, 15>>, other |-> <<10, 25>>]

\* Math.random() in hundredths
RandomPercents == {0, 50, 99}

\* generateCategoryBasedPrice with Math.random() = r / 100; the multiplier
\* is counted in tenths
GenerateCategoryBasedPrice(p, r) ==
  LET range == BasePrices[MapApiCategory(p)]
      name == LowerText(p.name, Undefined)
      Has(word) == Includes(name, word)
      m1 == IF Has(<<"l", "a", "r", "g", "e">>) \/ Has(<<"b", "i", "g">>) \/ Has(<<"x", "l">>) THEN 13 ELSE 10
      m2 == IF Has(<<"s", "m", "a", "l", "l">>) \/ Has(<<"m", "i", "n", "i">>) THEN 7 ELSE m1
      multiplier == IF Has(<<"p", "r", "e", "m", "i", "u", "m">>) \/ Has(<<"d", "e", "l", "u", "x", "e">>) \/ Has(<<"s", "p", "e", "c", "i", "a", "l">>) THEN 15 ELSE m2
      basePrice == (r * (range[2] - range[1]) * 10) + (range[1] * 1000)
  IN RoundToCents((basePrice * multiplier) \div 10)

\* the product's five price fields, in the order of priceFields
PriceFields(p) ==
  <<p.prices.price, p.prices.unitPrice, p.prices.cost, p.prices.amount,
    p.prices.basePrice>>

\* variant: the product's own price fields are read before locationPrices
ExtractPriceEnhanced_FieldsFirst(p, r) ==
  LET usable == {i \in 1..5 : FieldPrice(PriceFields(p)[i]) > 0}
  IN IF usable # {}
     THEN RoundToCents(FieldPrice(PriceFields(p)[
            CHOOSE i \in usable : \A j \in usable : i <= j]))
     ELSE GenerateCategoryBasedPrice(p, r)

ExtractPriceEnhanced(p, r) ==
  LET lp == p.prices.locationPrices
      Usable(e) ==
        ~e.isNull /\ (PositiveNumber(e.unitPriceWithVat)
                        \/ PositiveNumber(e.price))
      located == IF lp.type = "array"
                 THEN {i \in 1..Len(lp.entries) : Usable(lp.entries[i])}
                 ELSE {}
      first == lp.entries[CHOOSE i \in located : \A j \in located : i <= j]
      usable == {i \in 1..5 : FieldPrice(PriceFields(p)[i]) > 0}
  IN IF located # {}
     THEN IF PositiveNumber(first.unitPriceWithVat)
          THEN RoundToCents(first.unitPriceWithVat.n)
          ELSE RoundToCents(first.price.n)
     ELSE IF PositiveNumber(p.prices.unitPriceWithVat)
     THEN RoundToCents(p.prices.unitPriceWithVat.n)
     ELSE IF usable # {}
     THEN RoundToCents(FieldPrice(PriceFields(p)[
            CHOOSE i \in usable : \A j \in usable : i <= j]))
     ELSE GenerateCategoryBasedPrice(p, r)

\* raw products by their price fields: absent, numbers, zero, negative,
\* numeric and other strings, and locationPrices absent, empty, not an array,
\* with a null entry, with entries that carry no positive number
PricedProducts ==
  {[name |-> name, category |-> Undefined, categoryName |-> Undefined,
    alias |-> Undefined,
    prices |-> [locationPrices |-> lp, unitPriceWithVat |-> upv,
                price |-> price, unitPrice |-> unitPrice, cost |-> cost,
                amount |-> amount, basePrice |-> basePrice]] :
     name \in {Undefined,
              JsValue("string", <<"L", "a", "r", "g", "e", " ", "C", "o", "l", "a">>, 0),
              JsValue("string", <<"M", "i", "n", "i", " ", "P", "r", "e", "m", "i", "u", "m", " ", "B", "u", "r", "g", "e", "r">>, 0)},
     lp \in {[type |-> "undefined", entries |-> <<>>],
            [type |-> "array", entries |-> <<>>],
            [type |-> "object", entries |-> <<>>],
            [type |-> "array", entries |-> <<[isNull |-> FALSE, unitPriceWithVat |-> JsValue("number", << >>, 12345), price |-> JsValue("number", << >>, 88000)]>>],
            [type |-> "array", entries |-> <<[isNull |-> TRUE, unitPriceWithVat |-> Undefined, price |-> Undefined],
                                 [isNull |-> FALSE, unitPriceWithVat |-> JsValue("number", << >>, 0), price |-> JsValue("number", << >>, 5000)],
                                 [isNull |-> FALSE, unitPriceWithVat |-> JsValue("number", << >>, 12345), price |-> Undefined]>>],
            [type |-> "array", entries |-> <<[isNull |-> FALSE, unitPriceWithVat |-> JsValue("string", <<"7">>, 0), price |-> Undefined]>>]},
     upv \in {Undefined,
             JsValue("number", << >>, 20000),
             JsValue("number", << >>, 0),
             JsValue("string", <<"2", "0">>, 0)},
     price \in {Undefined,
               JsValue("number", << >>, 99000),
               JsValue("string", <<"4", ".", "5">>, 0),
               JsValue("string", <<"a", "b", "c">>, 0),
               JsValue("number", << >>, 0)},
     unitPrice \in {Undefined,
                   JsValue("string", <<" ", "3", ".", "9", "9", "9", " ", "l", "e", "i">>, 0)},
     cost \in {Undefined,
              JsValue("number", << >>, 0 - 1000)},
     amount \in {Undefined,
                JsValue("string", <<"0">>, 0)},
     basePrice \in {Undefined,
                   JsValue("number", << >>, 7125)}}

ExtractPriceEnhancedCall ==
  /\ \E r \in RandomPercents :
       probe' = [fn |-> "extractPriceEnhanced", arg |-> probe.arg,
                 value |-> ExtractPriceEnhanced(probe.arg, r)]
  /\ UNCHANGED <<authVars, cartVars>>

SpecPrice == ProbeInit(PricedProducts) /\ [][ExtractPriceEnhancedCall]_vars

\* ------------------------------------------------------- product listings
\* the fields of a raw product that checkAvailability and extractDescription
\* read
ListingFields ==
  {"isAvailable", "available", "status", "inStock", "isActive", "isDisabled",
   "stock", "quantity", "description", "alias"}

\* raw products of a listing: null, a product with none of these fields,
\* and products with one of them set to a boolean, a number or a string
RawListingProducts ==
  LET bare == [isNull |-> FALSE, fields |-> [f \in ListingFields |-> Undefined]]
      values == {JsValue("boolean", << >>, 0), JsValue("boolean", << >>, 1),
                 JsValue("number", << >>, 0), JsValue("number", << >>, 0 - 1),
                 JsValue("number", << >>, 5),
                 JsValue("string", <<"u", "n", "a", "v", "a", "i", "l", "a", "b", "l", "e">>, 0),
                 JsValue("string", <<"d", "i", "s", "a", "b", "l", "e", "d">>, 0),
                 JsValue("string", <<"a", "c", "t", "i", "v", "e">>, 0),
                 JsValue("string", <<"0">>, 0)}
  IN {bare, [bare EXCEPT !.isNull = TRUE]} \cup
     {[bare EXCEPT !.fields[f] = v] : f \in ListingFields, v \in values}

\* x === the boolean b (b is 0 or 1)
IsBoolean(x, b) == x.type = "boolean" /\ x.n = b

CheckAvailability(p) ==
  LET f == p.fields
  IN ~ \/ IsBoolean(f.isAvailable, 0)
       \/ IsBoolean(f.available, 0)
       \/ f.status.type = "string"
            /\ f.status.chars \in {<<"u", "n", "a", "v", "a", "i", "l", "a", "b", "l", "e">>,
                                    <<"d", "i", "s", "a", "b", "l", "e", "d">>}
       \/ IsBoolean(f.inStock, 0)
       \/ IsBoolean(f.isActive, 0)
       \/ IsBoolean(f.isDisabled, 1)
       \/ f.stock.type = "number" /\ f.stock.n <= 0
       \/ f.quantity.type = "number" /\ f.quantity.n <= 0

\* transformProduct(p) throws a TypeError: p is null (apiProduct.name), or
\* extractDescription calls .replace on description || alias that is truthy
\* and not a string
TransformProductThrows(p) ==
  \/ p.isNull
  \/ LET d == IF JsTruthy(p.fields.description) THEN p.fields.description
               ELSE p.fields.alias
     IN JsTruthy(d) /\ d.type # "string"

\* products.map(transformProduct).filter(p => p.isAvailable !== false): the
\* raw products behind the list returned, or the TypeError thrown
ProcessProducts(products) ==
  IF \E i \in 1..Len(products) : TransformProductThrows(products[i])
  THEN [threw |-> TRUE, list |-> << >>]
  ELSE [threw |-> FALSE, list |-> SelectSeq(products, CheckAvailability)]

\* getSellingProducts on a response whose located array is probe.arg: the
\* list delivered (catchError turns the TypeError into [])
SellingProductsResponse ==
  /\ probe' = [fn |-> "getSellingProducts", arg |-> probe.arg,
               value |-> ProcessProducts(probe.arg).list]
  /\ UNCHANGED <<authVars, cartVars>>

\* MenuComponent.loadMockProducts: this.products becomes the six demo
\* products built into the component
MockProducts == [id \in 1..6 |-> [source |-> "mock", id |-> id]]

\* MenuComponent.loadProductsFromAPI, the next handler of its subscription to
\* getSellingProducts(): this.products and this.errorMessage afterwards
LoadProductsFromAPINext ==
  /\ probe.fn = "getSellingProducts"
  /\ probe' = [fn |-> "loadProductsFromAPI", arg |-> probe.value,
               value |->
                 [products |->
                    IF Len(probe.value) > 0
                    THEN [i \in 1..Len(probe.value) |->
                            [source |-> "api", id |-> i]]
                    ELSE MockProducts,
                  errorMessage |-> ""]]
  /\ UNCHANGED <<authVars, cartVars>>

SpecListing ==
  ProbeInit({<< >>} \cup {<<p>> : p \in RawListingProducts} \cup
              {<<p, q>> : p, q \in RawListingProducts})
    /\ [][SellingProductsResponse \/ LoadProductsFromAPINext]_vars

\* ------------------------------------------- categories with their products
\* identifiers of the API: absent, or one of two uids
Identifiers ==
  {Undefined, JsValue("string", <<"c", "1">>, 0),
   JsValue("string", <<"c", "2">>, 0)}

\* raw categories of /ProductCategory/FindMany: uid and id
RawCategories == [uid : Identifiers, id : Identifiers]

\* raw products of /Product/FindMany: the three category fields, and
\* isAvailable absent or false
CategorizedProducts ==
  LET fields == ListingFields \cup {"productCategoryUid", "categoryUid", "categoryId"}
  IN {[isNull |-> FALSE,
       fields |-> [f \in fields |->
                     CASE f = "productCategoryUid" -> a
                       [] f = "categoryUid" -> b
                       [] f = "categoryId" -> c
                       [] f = "isAvailable" -> v
                       [] OTHER -> Undefined]] :
        a \in Identifiers, b \in Identifiers, c \in Identifiers,
        v \in {Undefined, JsValue("boolean", << >>, 0)}}

\* per category kept, the raw category and the raw products behind its
\* product list; threw: transformProduct threw a TypeError
ProcessCategoriesWithProducts(categories, allProducts) ==
  LET Entry(category) ==
        LET InCategory(product) ==
              \/ product.fields.productCategoryUid = category.uid
              \/ product.fields.categoryUid = category.uid
              \/ product.fields.categoryId = category.id
        IN [category |-> category,
            products |-> ProcessProducts(SelectSeq(allProducts, InCategory))]
      all == [i \in 1..Len(categories) |-> Entry(categories[i])]
      NonEmpty(entry) == Len(entry.products.list) > 0
  IN IF \E i \in 1..Len(all) : all[i].products.threw
     THEN [threw |-> TRUE, list |-> << >>]
     ELSE [threw |-> FALSE,
           list |-> [i \in 1..Len(SelectSeq(all, NonEmpty)) |->
                       [category |-> SelectSeq(all, NonEmpty)[i].category,
                        products |-> SelectSeq(all, NonEmpty)[i].products.list]]]

\* getCategoriesWithProducts when both GETs answered with arrays: the list
\* delivered (catchError turns a TypeError into [])
CategoriesWithProductsResponse ==
  /\ probe' = [fn |-> "getCategoriesWithProducts", arg |-> probe.arg,
               value |-> ProcessCategoriesWithProducts(
                           probe.arg.categories, probe.arg.allProducts).list]
  /\ UNCHANGED <<authVars, cartVars>>

SpecCategories ==
  /\ ProbeInit({[categories |-> cs, allProducts |-> ps] :
                 cs \in {<<c>> : c \in RawCategories}
                          \cup {<<c, d>> : c \in RawCategories, d \in RawCategories},
                 ps \in {<< >>} \cup {<<p>> : p \in CategorizedProducts}})
  /\ [][CategoriesWithProductsResponse]_vars

\* ------------------------------------------------------------ product images
\* raw products with their image fields: imageUid a number or a string of 10
\* or 11 characters; image an inline image, strings of 20, 21 and 22
\* characters (the last with a blank) or a number; imageUrl an inline image,
\* an http URL, another URL or a number
ImageProducts ==
  [name : {Undefined, JsValue("string", <<"C", "h", "e", "e", "s", "e", " ", "B", "u", "r", "g", "e", "r">>, 0)},
   category : {Undefined}, categoryName : {Undefined}, alias : {Undefined},
   id : {Undefined, JsValue("number", << >>, 7)},
   imageUid : {Undefined, JsValue("number", << >>, 7),
               JsValue("string", <<"0", "1", "2", "3", "4", "5", "6", "7", "8", "9">>, 0),
               JsValue("string", <<"0", "1", "2", "3", "4", "5", "6", "7", "8", "9", "a">>, 0)},
   image : {Undefined, JsValue("number", << >>, 7),
            JsValue("string", <<"d", "a", "t", "a", ":", "i", "m", "a",
                              "g", "e", "/", "p", "n", "g", ";", "b",
                              "a", "s", "e", "6", "4", ",", "i", "V",
                              "B", "O", "R">>, 0),
            JsValue("string", <<"a", "b", "c", "d", "e", "f", "g", "h", "i", "j", "k", "l", "m", "n", "o", "p", "q", "r", "s", "t">>, 0),
            JsValue("string", <<"a", "b", "c", "d", "e", "f", "g", "h", "i", "j", "k", "l", "m", "n", "o", "p", "q", "r", "s", "t", "u">>, 0),
            JsValue("string", <<"a", "b", "c", "d", "e", "f", "g", "h", "i", "j", "k", " ", "l", "m", "n", "o", "p", "q", "r", "s", "t", "u">>, 0)},
   imageUrl : {Undefined, JsValue("number", << >>, 7),
               JsValue("string", <<"d", "a", "t", "a", ":", "i", "m",
                                 "a", "g", "e", "/", "p", "n", "g",
                                 ";", "b", "a", "s", "e", "6", "4",
                                 ",", "i", "V", "B", "O", "R">>, 0),
               JsValue("string", <<"h", "t", "t", "p", ":", "/", "/", "c", "d", "n", "/", "a", ".", "p", "n", "g">>, 0),
               JsValue("string", <<"f", "t", "p", ":", "/", "/", "c", "d", "n", "/", "a", ".", "p", "n", "g">>, 0)}]

\* s.startsWith(prefix)
StartsWith(s, prefix) ==
  Len(s) >= Len(prefix) /\ SubSeq(s, 1, Len(prefix)) = prefix

\* variant: the image field is never taken for an image identifier
GetImageSource_InlineOnly(apiProduct) ==
  LET IsText(v) == JsTruthy(v) /\ v.type = "string"
      inline == <<"d", "a", "t", "a", ":", "i", "m", "a", "g", "e", "/">>
      uid == apiProduct.imageUid
      image == apiProduct.image
      url == apiProduct.imageUrl
  IN IF IsText(uid) /\ Len(uid.chars) > 10
     THEN [type |-> "imageUid", value |-> uid.chars]
     ELSE IF IsText(image) /\ StartsWith(image.chars, inline)
     THEN [type |-> "base64", value |-> image.chars]
     ELSE IF IsText(url) /\ StartsWith(url.chars, inline)
     THEN [type |-> "base64", value |-> url.chars]
     ELSE IF IsText(url) /\ StartsWith(url.chars, <<"h", "t", "t", "p">>)
     THEN [type |-> "directUrl", value |-> url.chars]
     ELSE [type |-> "fallback", value |-> << >>]

GetImageSource(apiProduct) ==
  LET IsText(v) == JsTruthy(v) /\ v.type = "string"
      inline == <<"d", "a", "t", "a", ":", "i", "m", "a", "g", "e", "/">>
      uid == apiProduct.imageUid
      image == apiProduct.image
      url == apiProduct.imageUrl
  IN IF IsText(uid) /\ Len(uid.chars) > 10
     THEN [type |-> "imageUid", value |-> uid.chars]
     ELSE IF IsText(image) /\ StartsWith(image.chars, inline)
     THEN [type |-> "base64", value |-> image.chars]
     ELSE IF IsText(image) /\ Len(image.chars) > 20
                           /\ ~Includes(image.chars, <<" ">>)
     THEN [type |-> "imageUid", value |-> image.chars]
     ELSE IF IsText(url) /\ StartsWith(url.chars, inline)
     THEN [type |-> "base64", value |-> url.chars]
     ELSE IF IsText(url) /\ StartsWith(url.chars, <<"h", "t", "t", "p">>)
     THEN [type |-> "directUrl", value |-> url.chars]
     ELSE [type |-> "fallback", value |-> << >>]

\* generateCategoryBasedImageUrl with Math.floor(Math.random() * 1000) = r
GenerateCategoryBasedImageUrl(apiProduct, r) ==
  LET categoryImages ==
        [burgers |->
           <<"h", "t", "t", "p", "s", ":", "/", "/", "i", "m", "a",
             "g", "e", "s", ".", "u", "n", "s", "p", "l", "a", "s",
             "h", ".", "c", "o", "m", "/", "p", "h", "o", "t", "o",
             "-", "1", "5", "6", "8", "9", "0", "1", "3", "4", "6",
             "3", "7", "5", "-", "2", "3", "c", "9", "4", "5", "0",
             "c", "5", "8", "c", "d", "?", "w", "=", "3", "0", "0",
             "&", "h", "=", "2", "0", "0", "&", "f", "i", "t", "=",
             "c", "r", "o", "p", "&", "c", "r", "o", "p", "=", "c",
             "e", "n", "t", "e", "r", "&", "q", "=", "8", "0", "&",
             "s", "i", "g", "=">>,
         chicken |->
           <<"h", "t", "t", "p", "s", ":", "/", "/", "i", "m", "a",
             "g", "e", "s", ".", "u", "n", "s", "p", "l", "a", "s",
             "h", ".", "c", "o", "m", "/", "p", "h", "o", "t", "o",
             "-", "1", "5", "6", "2", "9", "6", "7", "9", "1", "4",
             "-", "6", "0", "8", "f", "8", "2", "6", "2", "9", "7",
             "1", "0", "?", "w", "=", "3", "0", "0", "&", "h", "=",
             "2", "0", "0", "&", "f", "i", "t", "=", "c", "r", "o",
             "p", "&", "c", "r", "o", "p", "=", "c", "e", "n", "t",
             "e", "r", "&", "q", "=", "8", "0", "&", "s", "i", "g",
             "=">>,
         sides |->
           <<"h", "t", "t", "p", "s", ":", "/", "/", "i", "m", "a",
             "g", "e", "s", ".", "u", "n", "s", "p", "l", "a", "s",
             "h", ".", "c", "o", "m", "/", "p", "h", "o", "t", "o",
             "-", "1", "5", "7", "3", "0", "8", "0", "4", "9", "6",
             "2", "1", "9", "-", "b", "b", "0", "8", "0", "d", "d",
             "4", "f", "8", "7", "7", "?", "w", "=", "3", "0", "0",
             "&", "h", "=", "2", "0", "0", "&", "f", "i", "t", "=",
             "c", "r", "o", "p", "&", "c", "r", "o", "p", "=", "c",
             "e", "n", "t", "e", "r", "&", "q", "=", "8", "0", "&",
             "s", "i", "g", "=">>,
         drinks |->
           <<"h", "t", "t", "p", "s", ":", "/", "/", "i", "m", "a",
             "g", "e", "s", ".", "u", "n", "s", "p", "l", "a", "s",
             "h", ".", "c", "o", "m", "/", "p", "h", "o", "t", "o",
             "-", "1", "5", "4", "4", "1", "4", "5", "9", "4", "5",
             "-", "f", "9", "0", "4", "2", "5", "3", "4", "0", "c",
             "7", "e", "?", "w", "=", "3", "0", "0", "&", "h", "=",
             "2", "0", "0", "&", "f", "i", "t", "=", "c", "r", "o",
             "p", "&", "c", "r", "o", "p", "=", "c", "e", "n", "t",
             "e", "r", "&", "q", "=", "8", "0", "&", "s", "i", "g",
             "=">>,
         desserts |->
           <<"h", "t", "t", "p", "s", ":", "/", "/", "i", "m", "a",
             "g", "e", "s", ".", "u", "n", "s", "p", "l", "a", "s",
             "h", ".", "c", "o", "m", "/", "p", "h", "o", "t", "o",
             "-", "1", "5", "5", "1", "0", "2", "4", "5", "0", "6",
             "-", "0", "b", "c", "c", "d", "8", "2", "8", "d", "3",
             "0", "7", "?", "w", "=", "3", "0", "0", "&", "h", "=",
             "2", "0", "0", "&", "f", "i", "t", "=", "c", "r", "o",
             "p", "&", "c", "r", "o", "p", "=", "c", "e", "n", "t",
             "e", "r", "&", "q", "=", "8", "0", "&", "s", "i", "g",
             "=">>,
         other |->
           <<"h", "t", "t", "p", "s", ":", "/", "/", "i", "m", "a",
             "g", "e", "s", ".", "u", "n", "s", "p", "l", "a", "s",
             "h", ".", "c", "o", "m", "/", "p", "h", "o", "t", "o",
             "-", "1", "5", "6", "5", "2", "9", "9", "6", "2", "4",
             "9", "4", "6", "-", "b", "2", "8", "f", "4", "0", "a",
             "0", "c", "a", "4", "b", "?", "w", "=", "3", "0", "0",
             "&", "h", "=", "2", "0", "0", "&", "f", "i", "t", "=",
             "c", "r", "o", "p", "&", "c", "r", "o", "p", "=", "c",
             "e", "n", "t", "e", "r", "&", "q", "=", "8", "0", "&",
             "s", "i", "g", "=">>]
      id == IF JsTruthy(apiProduct.id) THEN JsString(apiProduct.id)
            ELSE DecString(r)
  IN categoryImages[MapApiCategory(apiProduct)] \o id

GenerateImageUrlEnhanced(apiProduct, r) ==
  LET imageSource == GetImageSource(apiProduct)
  IN CASE imageSource.type = "imageUid" ->
            <<"h", "t", "t", "p", "s", ":", "/", "/", "a", "p", "i",
              "-", "s", "t", "a", "g", "i", "n", "g", "-", "h", "e",
              "s", "b", "u", "r", "g", "e", "r", ".", "f", "r", "e",
              "y", "a", ".", "c", "l", "o", "u", "d", "/", "f", "i",
              "l", "e", "/", "g", "e", "t", "I", "m", "a", "g", "e",
              "?", "i", "m", "a", "g", "e", "U", "i", "d", "=">>
              \o imageSource.value
       [] imageSource.type \in {"base64", "directUrl"} -> imageSource.value
       [] OTHER -> GenerateCategoryBasedImageUrl(apiProduct, r)

\* values of Math.floor(Math.random() * 1000)
RandomIds == {0, 999}

GenerateImageUrlEnhancedCall ==
  /\ \E r \in RandomIds :
       probe' = [fn |-> "generateImageUrlEnhanced", arg |-> probe.arg, rnd |-> r,
                 value |-> GenerateImageUrlEnhanced(probe.arg, r)]
  /\ UNCHANGED <<authVars, cartVars>>

SpecImage == ProbeInit(ImageProducts) /\ [][GenerateImageUrlEnhancedCall]_vars

\* ------------------------------------------------- login responses alone
\* POST /login fails, or delivers a body with at most two paths present
LoginResponses ==
  {[failed |-> TRUE, body |-> NoBody], [failed |-> FALSE, body |-> NoBody]}
  \cup {[failed |-> FALSE, body |-> [NoBody EXCEPT ![i] = v]] :
          i \in 1..Len(LoginPaths), v \in LoginValues}
  \cup {[failed |-> FALSE, body |-> [NoBody EXCEPT ![i] = v, ![j] = u]] :
          i \in 1..Len(LoginPaths), j \in 1..Len(LoginPaths),
          v \in LoginValues, u \in LoginValues}

\* refreshToken() with no refresh in flight, up to its call of login()
RefreshTokenCall ==
  /\ probe.fn = "none"
  /\ svc' = RefreshTokenStart(svc)
  /\ probe' = [probe EXCEPT !.fn = "refreshToken"]
  /\ UNCHANGED <<now, advances, net, bg, subs, calls, ev, cartVars>>

\* POST /login settles with the response held in probe.arg and the login()
\* pipeline runs; before holds the service as it was
LoginCall ==
  /\ probe.fn \in {"none", "refreshToken"}
  /\ Commit(LoginPipeline(BackgroundTurn,
                           IF probe.arg.failed THEN JsValue("null", << >>, 0)
                           ELSE ExtractTokenFromResponse(probe.arg.body)))
  /\ probe' = [fn |-> "login", arg |-> probe.arg, before |-> svc,
               value |-> IF /\ ~probe.arg.failed
                            /\ JsTruthy(ExtractTokenFromResponse(probe.arg.body))
                         THEN "response" ELSE "error"]
  /\ UNCHANGED <<now, advances, calls, cartVars>>

\* the service is new, has loaded a credential from localStorage, or has
\* logged in before (at time 0)
InitLogin ==
  /\ now = 0
  /\ advances = 0
  /\ svc \in {FreshService, LoadedService,
              LoginSucceeded(FreshService, SessionChars, 0)}
  /\ net = NoRequests
  /\ bg = NoBackground
  /\ subs = EmptyBag
  /\ calls = 0
  /\ ev = NoEvent
  /\ cart = << >>
  /\ cartStorage = NoCartStorage
  /\ cartOp = NoCartOp
  /\ cartSeen = [s \in CartSubscribers |-> NotSubscribed]
  /\ checkout = NoCheckout
  /\ probe \in {[fn |-> "none", arg |-> p] : p \in LoginResponses}

SpecLogin == InitLogin /\ [][RefreshTokenCall \/ LoginCall]_vars

\* The calls, their responses, the timer's refresh and the clock, with the
\* HTTP requests of the subscriptions settling: POST /login has a 10 s
\* timeout, the other requests end with a response or a transport error.
NextFair ==
  \/ \E kind \in Kinds, ok \in BOOLEAN :
       /\ (kind # "order" => ok)
       /\ Call(kind, ok)
  \/ \E cr \in BagToSet(subs), resp \in LoginOutcomes :
       CallerLoginResponse(cr, resp)
  \/ \E cr \in BagToSet(subs), out \in ListingOutcomes \cup OrderOutcomes :
       RequestResponse(cr, out)
  \/ \E cr \in BagToSet(subs) : Unsubscribe(cr)
  \/ TimerTick
  \/ \E l \in BagToSet(net.logins), resp \in LoginOutcomes :
       BackgroundLoginResponse(l, resp)
  \/ AdvanceTime

FairSpec ==
  /\ Init /\ [][NextFair]_vars
  /\ WF_vars(\E cr \in BagToSet(subs), resp \in LoginOutcomes :
               CallerLoginResponse(cr, resp))
  /\ WF_vars(\E cr \in BagToSet(subs), out \in ListingOutcomes \cup OrderOutcomes :
               RequestResponse(cr, out))

\* the same with MenuComponent.forceReauth
NextForce == Next \/ ForceReauth

SpecForce == Init /\ [][NextForce]_vars

\* the service with its interval timer: the constructor found no credential
\* in localStorage, or one that expires 150 s or 180 s later
InitTimer ==
  /\ now = 0
  /\ advances = 0
  /\ svc \in {FreshService, LoadedService,
              [LoadedService EXCEPT
                 !.tokenExpiryTime = NearExpiryWindow + TimerPeriod \div 2,
                 !.storedExpiry = NearExpiryWindow + TimerPeriod \div 2]}
  /\ net = NoRequests
  /\ bg = NoBackground
  /\ subs = EmptyBag
  /\ calls = 0
  /\ ev = NoEvent
  /\ cart = << >>
  /\ cartStorage = NoCartStorage
  /\ cartOp = NoCartOp
  /\ cartSeen = [s \in CartSubscribers |-> NotSubscribed]
  /\ checkout = NoCheckout
  /\ probe = NoProbe

NextTimer ==
  \/ \E kind \in Kinds, ok \in BOOLEAN :
       /\ (kind # "order" => ok)
       /\ Call(kind, ok)
  \/ \E cr \in BagToSet(subs), resp \in LoginOutcomes :
       CallerLoginResponse(cr, resp)
  \/ \E cr \in BagToSet(subs), out \in ListingOutcomes \cup OrderOutcomes :
       RequestResponse(cr, out)
  \/ \E l \in BagToSet(net.logins), resp \in LoginOutcomes :
       BackgroundLoginResponse(l, resp)
  \/ SelfTestFire
  \/ \E out \in {"ok", "401", "error"} : SelfTestResponse(out)
  \/ ClockTick

\* time passes
SpecTimer == InitTimer /\ [][NextTimer]_vars /\ WF_vars(ClockTick)

\* the credential through logins with any response, forced
\* re-authentication, time passing and page reloads
NextMirror ==
  \/ RefreshTokenCall
  \/ LoginCall
  \/ ForceReauth
  \/ \E l \in BagToSet(net.logins), resp \in LoginOutcomes :
       BackgroundLoginResponse(l, resp)
  \/ AdvanceTime
  \/ Restart

SpecMirror == InitLogin /\ [][NextMirror]_vars

\* ------------------------------------------------- the cart as objects
\* The cart as the JavaScript objects it is made of. lines[l] is a line
\* object, arrays[a] an array of references to line objects, subject the
\* array that cartSubject holds, held[s] the array a component keeps in
\* this.cart (0: the component is not subscribed), delivered[a] the value
\* array a had when a subscriber's callback last ran with it
MaxCartArrays == 6

RefProducts == {1, 5}
RefQuantities == {0, 2}
Instructions == {"no onions"}

NoDelivery == [done |-> FALSE, value |-> << >>]

NoCartObjects ==
  [fn |-> "none", lines |-> << >>, arrays |-> << << >> >>, subject |-> 1,
   held |-> [s \in CartSubscribers |-> 0], delivered |-> <<NoDelivery>>,
   atCall |-> << >>]

\* the lines an array holds now
Deref(g, a) == [k \in 1..Len(g.arrays[a]) |-> g.lines[g.arrays[a][k]]]

\* the position in array a of the first line with the id, 0 if none
FindRef(g, a, productId) == FindItem(Deref(g, a), productId)

\* a new array is allocated with the given references
NewArray(g, refs) ==
  [g EXCEPT !.arrays = Append(@, refs),
            !.delivered = Append(@, NoDelivery)]

\* a subscriber's callback runs with array a. MenuComponent keeps the array
\* itself (this.cart = cart), CartComponent keeps a copy of it that holds
\* the same line objects (this.cart = [...cart])
Receive(g, s, a) ==
  LET g1 == [g EXCEPT !.delivered[a] = [done |-> TRUE, value |-> Deref(g, a)]]
      g2 == NewArray(g1, g1.arrays[a])
  IN IF s = "menu" THEN [g1 EXCEPT !.held[s] = a]
     ELSE [g2 EXCEPT !.held[s] = Len(g2.arrays)]

\* cartSubject.next(a): the subject holds a, and the callback of every
\* subscribed component runs
SubjectNext(g, a) ==
  LET g0 == [g EXCEPT !.subject = a]
      g1 == IF g0.held["menu"] # 0 THEN Receive(g0, "menu", a) ELSE g0
  IN IF g1.held["cartPage"] # 0 THEN Receive(g1, "cartPage", a) ELSE g1

\* addToCart: currentCart is the subject's own array; the line found is
\* changed in place, a new line is pushed onto currentCart; then
\* next([...currentCart])
AddToCartRefs(g, productId, quantity) ==
  LET a == g.subject
      k == FindRef(g, a, productId)
      g1 == IF k > 0
            THEN [g EXCEPT !.lines[g.arrays[a][k]].quantity = @ + quantity]
            ELSE [g EXCEPT !.lines =
                             Append(@, [id |-> productId,
                                        quantity |-> quantity,
                                        specialInstructions |-> "undefined"]),
                           !.arrays[a] = Append(@, Len(g.lines) + 1)]
      g2 == NewArray(g1, g1.arrays[a])
  IN SubjectNext(g2, Len(g2.arrays))

\* removeFromCart: filter() makes a new array of the same line objects
RemoveFromCartRefs(g, productId) ==
  LET g1 == NewArray(g, SelectSeq(g.arrays[g.subject],
                                  LAMBDA l : g.lines[l].id # productId))
  IN SubjectNext(g1, Len(g1.arrays))

\* updateCartQuantity: the line found is assigned in place
UpdateCartQuantityRefs(g, productId, quantity) ==
  LET a == g.subject
      k == FindRef(g, a, productId)
      g1 == [g EXCEPT !.lines[g.arrays[a][k]].quantity = quantity]
      g2 == NewArray(g1, g1.arrays[a])
  IN IF k = 0 THEN g
     ELSE IF quantity <= 0 THEN RemoveFromCartRefs(g, productId)
     ELSE SubjectNext(g2, Len(g2.arrays))

\* clearCart: next([])
ClearCartRefs(g) ==
  LET g1 == NewArray(g, << >>)
  IN SubjectNext(g1, Len(g1.arrays))

\* the store's current state: the lines of the array the subject holds
StoreState(g) == Deref(g, g.subject)

CartObjectsStep(g, fn) ==
  /\ Len(g.arrays) <= MaxCartArrays
  /\ \A l \in 1..Len(g.lines) : g.lines[l].quantity <= MaxLineQuantity
  /\ probe' = [g EXCEPT !.fn = fn]
  /\ UNCHANGED <<authVars, cartVars>>

AddToCartObjects(productId, quantity) ==
  CartObjectsStep([AddToCartRefs(probe, productId, quantity)
                     EXCEPT !.atCall = StoreState(probe)], "addToCart")

RemoveFromCartObjects(productId) ==
  CartObjectsStep([RemoveFromCartRefs(probe, productId)
                     EXCEPT !.atCall = StoreState(probe)], "removeFromCart")

UpdateCartQuantityObjects(productId, quantity) ==
  CartObjectsStep([UpdateCartQuantityRefs(probe, productId, quantity)
                     EXCEPT !.atCall = StoreState(probe)],
                  "updateCartQuantity")

ClearCartObjects ==
  CartObjectsStep([ClearCartRefs(probe) EXCEPT !.atCall = StoreState(probe)],
                  "clearCart")

\* initializeCart: cart$.subscribe(cart => this.cart = cart); the
\* BehaviorSubject hands over the array it holds
InitializeCart(s) ==
  /\ probe.held[s] = 0
  /\ CartObjectsStep([Receive(probe, s, probe.subject)
                        EXCEPT !.atCall = StoreState(probe)], "subscribe")

\* CartComponent.addInstructions: the line found in this.cart is assigned,
\* then updateCartQuantity(productId, item.quantity) is called; atCall is
\* the store's state when the service is called
AddInstructions(productId, instructions) ==
  LET a == probe.held["cartPage"]
      k == FindRef(probe, a, productId)
      l == probe.arrays[a][k]
      g1 == [probe EXCEPT !.lines[l].specialInstructions = instructions]
      g2 == UpdateCartQuantityRefs(g1, productId, g1.lines[l].quantity)
  IN /\ a # 0
     /\ k > 0
     /\ CartObjectsStep([g2 EXCEPT !.atCall = StoreState(g1)],
                        "addInstructions")

InitCartObjects ==
  /\ InitAuth
  /\ cart = << >>
  /\ cartStorage = NoCartStorage
  /\ cartOp = NoCartOp
  /\ cartSeen = [s \in CartSubscribers |-> NotSubscribed]
  /\ checkout = NoCheckout
  /\ probe = NoCartObjects

NextCartObjects ==
  \/ \E productId \in RefProducts : AddToCartObjects(productId, 2)
  \/ \E productId \in RefProducts : RemoveFromCartObjects(productId)
  \/ \E productId \in RefProducts, quantity \in RefQuantities :
       UpdateCartQuantityObjects(productId, quantity)
  \/ ClearCartObjects
  \/ \E s \in CartSubscribers : InitializeCart(s)
  \/ \E productId \in RefProducts, instructions \in Instructions :
       AddInstructions(productId, instructions)

SpecCartObjects == InitCartObjects /\ [][NextCartObjects]_vars

\* ------------------------------------------------------- MenuComponent
\* MenuComponent's fields, with the categories as the sequence of their ids
FIXED_CATEGORIES ==
  <<"all", "burgers", "chicken", "sides", "drinks", "desserts", "other">>

\* the lists getCategoriesWithProducts() may deliver, as the categories'
\* names: none, two, and seven that are not the fixed ones
ApiCategoryLists ==
  {<< >>, <<"Hampurilaiset", "Juomat">>,
   <<"c1", "c2", "c3", "c4", "c5", "c6", "c7">>}

MaxMenuRequests == 2

\* the component after its constructor
NewMenuComponent ==
  [fn |-> "constructor", categories |-> FIXED_CATEGORIES,
   categoriesWithProducts |-> << >>, selectedCategory |-> "all",
   products |-> "none", isLoadingProducts |-> TRUE,
   isLoadingCategories |-> FALSE, errorMessage |-> "",
   productRequests |-> 0, categoryRequests |-> 0, reauthRequests |-> 0]

InitializeCategories(m) ==
  LET m1 == [m EXCEPT !.categories = FIXED_CATEGORIES]
  IN IF Len(m1.categories) # 7
     THEN [m1 EXCEPT !.categories = FIXED_CATEGORIES] ELSE m1

EnsureCategoriesProtected(m) ==
  IF Len(m.categories) # 7
  THEN [m EXCEPT !.categories = FIXED_CATEGORIES] ELSE m

\* loadProductsFromAPI up to the subscribe
LoadProductsFromAPI(m) ==
  [m EXCEPT !.isLoadingProducts = TRUE, !.errorMessage = "",
            !.productRequests = @ + 1]

\* loadCategoriesFromAPIForReference up to the subscribe
LoadCategoriesFromAPIForReference(m) ==
  [m EXCEPT !.isLoadingCategories = TRUE, !.categoryRequests = @ + 1]

LoadProducts(m) ==
  LoadCategoriesFromAPIForReference(
    LoadProductsFromAPI(
      IF Len(m.categories) # 7 THEN InitializeCategories(m) ELSE m))

\* the next and error callbacks of loadProductsFromAPI
ProductsLoaded(m, outcome) ==
  EnsureCategoriesProtected(
    CASE outcome = "products" ->
           [m EXCEPT !.products = "api", !.isLoadingProducts = FALSE,
                     !.productRequests = @ - 1]
      [] outcome = "empty" ->
           [m EXCEPT !.products = "mock", !.isLoadingProducts = FALSE,
                     !.productRequests = @ - 1]
      [] OTHER ->
           [m EXCEPT !.products = "mock",
                     !.errorMessage =
                       "Using demo data - API connection failed",
                     !.productRequests = @ - 1])

\* variant: the API's categories replace the component's
CategoriesLoaded_Replacing(m, list) ==
  EnsureCategoriesProtected(
    [m EXCEPT !.categoriesWithProducts = list, !.categories = list,
              !.isLoadingCategories = FALSE, !.categoryRequests = @ - 1])

\* the next callback of loadCategoriesFromAPIForReference
CategoriesLoaded(m, list) ==
  EnsureCategoriesProtected(
    [m EXCEPT !.categoriesWithProducts = list,
              !.isLoadingCategories = FALSE, !.categoryRequests = @ - 1])

\* its error callback
CategoriesFailed(m) ==
  EnsureCategoriesProtected(
    [m EXCEPT !.isLoadingCategories = FALSE, !.categoryRequests = @ - 1])

MenuStep(m, fn) ==
  /\ m.productRequests <= MaxMenuRequests
  /\ m.categoryRequests <= MaxMenuRequests
  /\ m.reauthRequests <= MaxMenuRequests
  /\ probe' = [m EXCEPT !.fn = fn]
  /\ UNCHANGED <<authVars, cartVars>>

MenuNgOnInit ==
  /\ probe.fn = "constructor"
  /\ MenuStep(LoadProducts(InitializeCategories(probe)), "ngOnInit")

MenuProductsResponse(outcome) ==
  /\ probe.productRequests > 0
  /\ MenuStep(ProductsLoaded(probe, outcome), "productsLoaded")

MenuCategoriesResponse(list) ==
  /\ probe.categoryRequests > 0
  /\ MenuStep(CategoriesLoaded(probe, list), "categoriesLoaded")

MenuCategoriesError ==
  /\ probe.categoryRequests > 0
  /\ MenuStep(CategoriesFailed(probe), "categoriesFailed")

\* retryLoadData and reloadData have the same body
RetryLoadData ==
  /\ probe.fn # "constructor"
  /\ MenuStep(LoadProducts(EnsureCategoriesProtected(probe)), "retryLoadData")

SelectCategory(categoryId) ==
  /\ probe.fn # "constructor"
  /\ MenuStep(EnsureCategoriesProtected(
                [probe EXCEPT !.selectedCategory = categoryId]),
              "selectCategory")

GetCategoryStats ==
  /\ probe.fn # "constructor"
  /\ MenuStep(EnsureCategoriesProtected(probe), "getCategoryStats")

EmergencyRestoreCategories ==
  /\ probe.fn # "constructor"
  /\ MenuStep([probe EXCEPT !.categories = FIXED_CATEGORIES],
              "emergencyRestoreCategories")

\* MenuComponent.forceReauth up to the subscribe, and its two callbacks
MenuForceReauth ==
  /\ probe.fn # "constructor"
  /\ MenuStep(EnsureCategoriesProtected(
                [probe EXCEPT !.reauthRequests = @ + 1]), "forceReauth")

MenuReauthResponse(ok) ==
  /\ probe.reauthRequests > 0
  /\ LET m == [probe EXCEPT !.reauthRequests = @ - 1]
     IN MenuStep(IF ok THEN LoadProducts(m) ELSE m, "reauthResponse")

InitMenu ==
  /\ InitAuth
  /\ cart = << >>
  /\ cartStorage = NoCartStorage
  /\ cartOp = NoCartOp
  /\ cartSeen = [s \in CartSubscribers |-> NotSubscribed]
  /\ checkout = NoCheckout
  /\ probe = NewMenuComponent

NextMenu ==
  \/ MenuNgOnInit
  \/ \E outcome \in {"products", "empty", "error"} :
       MenuProductsResponse(outcome)
  \/ \E list \in ApiCategoryLists : MenuCategoriesResponse(list)
  \/ MenuCategoriesError
  \/ RetryLoadData
  \/ \E categoryId \in {"all", "drinks", "c1"} : SelectCategory(categoryId)
  \/ GetCategoryStats
  \/ EmergencyRestoreCategories
  \/ MenuForceReauth
  \/ \E ok \in BOOLEAN : MenuReauthResponse(ok)

SpecMenu == InitMenu /\ [][NextMenu]_vars

\* The same, with the timer's POST /login settling as well: every request
\* that stays subscribed ends with a response, a transport error or its
\* timeout
SpecSettling ==
  /\ Init /\ [][NextFair]_vars
  /\ WF_vars(\E cr \in BagToSet(subs), resp \in LoginOutcomes :
               CallerLoginResponse(cr, resp))
  /\ WF_vars(\E cr \in BagToSet(subs), out \in ListingOutcomes \cup OrderOutcomes :
               RequestResponse(cr, out))
  /\ WF_vars(\E l \in BagToSet(net.logins), resp \in LoginOutcomes :
               BackgroundLoginResponse(l, resp))

\* The self-test with no bound on how often it runs: the count of the
\* self-tests started is dropped when one fires, so that each login that
\* succeeds schedules the next
SelfTestFireAgain ==
  /\ bg.selfTestTimers > 0
  /\ Commit([BackgroundTurn EXCEPT
               !.bg.selfTestTimers = @ - 1,
               !.bg.selfTestsStarted = 0,
               !.bg.selfTestReqs = IF Truthy(svc.authToken) THEN @ + 1 ELSE @])
  /\ UNCHANGED <<now, advances, calls, cartVars, probe>>

\* calls, their responses, and the self-test after each login; every
\* request settles and every timer fires
NextSelfTest ==
  \/ \E kind \in Kinds, ok \in BOOLEAN :
       /\ (kind # "order" => ok)
       /\ Call(kind, ok)
  \/ \E cr \in BagToSet(subs), resp \in LoginOutcomes :
       CallerLoginResponse(cr, resp)
  \/ \E cr \in BagToSet(subs), out \in ListingOutcomes \cup OrderOutcomes :
       RequestResponse(cr, out)
  \/ \E l \in BagToSet(net.logins), resp \in LoginOutcomes :
       BackgroundLoginResponse(l, resp)
  \/ SelfTestFireAgain
  \/ \E out \in {"ok", "401", "error"} : SelfTestResponse(out)

SpecSelfTest ==
  /\ Init /\ [][NextSelfTest]_vars
  /\ WF_vars(\E cr \in BagToSet(subs), resp \in LoginOutcomes :
               CallerLoginResponse(cr, resp))
  /\ WF_vars(\E cr \in BagToSet(subs), out \in ListingOutcomes \cup OrderOutcomes :
               RequestResponse(cr, out))
  /\ WF_vars(\E l \in BagToSet(net.logins), resp \in LoginOutcomes :
               BackgroundLoginResponse(l, resp))
  /\ WF_vars(SelfTestFireAgain)
  /\ WF_vars(\E out \in {"ok", "401", "error"} : SelfTestResponse(out))

\* --------------------------------------------------- QrScannerComponent
\* The component's scanner field and timers, with the page around it:
\*   qrScanner  this.qrScanner is not null
\*   active     the Html5QrcodeScanner instances rendered and not cleared
\*   timers     the setTimeout callbacks for startScanner not yet run
\*   element    document.getElementById('qr-reader') finds an element
\*   destroyed  ngOnDestroy has run
MaxActiveScanners == 3
MaxPendingTimers == 2

NewQrScannerComponent ==
  [fn |-> "constructor", qrScanner |-> FALSE, active |-> 0, timers |-> 0,
   element |-> FALSE, destroyed |-> FALSE, isScanning |-> TRUE]

\* startScanner(): without the element it schedules itself again in
\* 1000 ms; with it, a new scanner is made and rendered and the field is
\* overwritten
StartScanner(c) ==
  IF ~c.element
  THEN [c EXCEPT !.timers = @ + 1]
  ELSE [c EXCEPT !.qrScanner = TRUE, !.active = @ + 1]

\* stopScanner(): the scanner the field holds is cleared
StopScanner(c) ==
  IF c.qrScanner
  THEN [c EXCEPT !.qrScanner = FALSE, !.active = @ - 1]
  ELSE c

QrStep(c, fn) ==
  /\ c.active <= MaxActiveScanners
  /\ c.timers <= MaxPendingTimers
  /\ probe' = [c EXCEPT !.fn = fn]
  /\ UNCHANGED <<authVars, cartVars>>

\* ngOnInit: setTimeout(() => this.startScanner(), 500)
QrNgOnInit ==
  /\ probe.fn = "constructor"
  /\ QrStep([probe EXCEPT !.timers = @ + 1], "ngOnInit")

\* a timer set by ngOnInit or by startScanner runs out
QrTimerFires ==
  /\ probe.timers > 0
  /\ QrStep(StartScanner([probe EXCEPT !.timers = @ - 1]), "startScanner")

\* resetScanner(), from the page of a component that is shown
ResetScanner ==
  /\ probe.fn # "constructor"
  /\ ~probe.destroyed
  /\ QrStep(StartScanner([probe EXCEPT !.isScanning = TRUE]), "resetScanner")

\* a rendered scanner decodes a code: onScanSuccess stops the scanner the
\* field holds and navigates to the menu
OnScanSuccess ==
  /\ probe.active > 0
  /\ ~probe.destroyed
  /\ QrStep(StopScanner([probe EXCEPT !.isScanning = FALSE]),
            "onScanSuccess")

QrNgOnDestroy ==
  /\ probe.fn # "constructor"
  /\ ~probe.destroyed
  /\ QrStep([StopScanner(probe) EXCEPT !.destroyed = TRUE,
                                       !.element = FALSE], "ngOnDestroy")

\* the page gets an element with id 'qr-reader': the component's view is
\* rendered, or, after its destruction, the view of a new instance is
ElementRendered ==
  /\ probe.fn # "constructor"
  /\ ~probe.element
  /\ QrStep([probe EXCEPT !.element = TRUE], "rendered")

InitQrScanner ==
  /\ InitAuth
  /\ cart = << >>
  /\ cartStorage = NoCartStorage
  /\ cartOp = NoCartOp
  /\ cartSeen = [s \in CartSubscribers |-> NotSubscribed]
  /\ checkout = NoCheckout
  /\ probe = NewQrScannerComponent

NextQrScanner ==
  \/ QrNgOnInit
  \/ QrTimerFires
  \/ ResetScanner
  \/ OnScanSuccess
  \/ QrNgOnDestroy
  \/ ElementRendered

SpecQrScanner == InitQrScanner /\ [][NextQrScanner]_vars /\ WF_vars(QrTimerFires)

\* ======================================================== claims C1 - C9
SuccessOutcomes == {"ok", "empty"} \cup OrderBodies

\* "HB" followed by 6 digits and 3 digits
IsOrderNumberFormat(str) ==
  /\ Len(str) = 11
  /\ str[1] = "H" /\ str[2] = "B"
  /\ \A i \in 3..11 : str[i] \in DigitChars

C2_WaitsForInFlightLogin == ~ev.joinedPending

ErrorOf(outcome) ==
  CASE outcome = "401" -> "401"
    [] outcome = "error" -> "http"
    [] outcome = "malformed" -> "throw"
    [] outcome \in {"noToken", "httpError"} -> "loginFailed"
    [] OTHER -> "none"

C5_InvokedWithValidCredential ==
  \A e \in BagToSet(subs) : e.pc \in {"req", "retryReq"} => e.bearer

OrderRunning == \E e \in BagToSet(subs) : e.kind = "order"

\* C6: createOrder never delivers an error, the OrderResponse it delivers
\* has a non-empty orderNumber, and every createOrder subscription ends
\* with a delivery.
C6_OrderSubmissionTotality ==
  /\ [](ev.kind = "order" =>
          /\ ev.result.type = "order"
          /\ Len(ev.result.orderNumber) > 0)
  /\ [](\A e \in BagToSet(subs) : e.kind = "order" => Running(e))
  /\ (OrderRunning ~> ~OrderRunning)

\* an order whose transformation throws still got its OrderResponse
C6_Witness ==
  /\ ev.kind = "order"
  /\ ev.err = "throw"
  /\ ev.result.type = "order"

\* C7: when authentication or the remote call of an order fails, the result
\* is the offline one (isSuccess, isOffline, "HB" + 6 digits + 3 digits);
\* a result built from a recognized remote response is not offline.
C7_OfflineOrder ==
  ev.kind = "order" =>
    /\ ev.err # "none" =>
         /\ ev.result.isSuccess
         /\ ev.result.isOffline
         /\ IsOrderNumberFormat(ev.result.orderNumber)
    /\ (ev.err = "none" /\ Recognized(ev.outcome)) => ~ev.result.isOffline

\* the order's POST failed at the transport level
C7_Witness ==
  /\ ev.kind = "order"
  /\ ev.outcome = "error"
  /\ ev.result.isOffline

\* C8: a listing call never delivers an error, and delivers the empty list
\* whenever authentication, the remote call or the mapping of the response
\* failed.
C8_ListingResilience ==
  ev.kind \in ListingKinds =>
    /\ ev.result.type = "list"
    /\ ev.err # "none" => ev.result = EmptyList

\* a listing call ended after its login failed
C8_Witness ==
  /\ ev.kind \in ListingKinds
  /\ ev.err = "loginFailed"
  /\ ev.result = EmptyList

\* C9 (as claimed): no error reaches a subscription without error handler.
C9_NoUnhandledError == ~bg.unhandledError

\* C10: starting from an empty cart, after any sequence of addToCart,
\* removeFromCart, updateCartQuantity and clearCart no two lines of the
\* cart have the same product id.
C10_CartLinesUniquePerProduct ==
  \A i, j \in 1..Len(cart) : i # j => cart[i].id # cart[j].id

\* a product was added again (with another price) and merged into its line,
\* next to the lines of the other products
C10_Witness ==
  /\ Len(cart) = 2
  /\ \E i \in 1..Len(cart) : cart[i].id = 1 /\ cart[i].quantity = MaxLineQuantity
  /\ cartOp.op = "addToCart"

\* C11 (as claimed): starting from an empty cart, after any sequence of
\* addToCart, removeFromCart, updateCartQuantity and clearCart with arbitrary
\* integer quantities, every line of the cart has quantity >= 1.
C11_QuantitiesPositive ==
  \A i \in 1..Len(cart) : cart[i].quantity >= 1

\* C12: addToCart(product, n): if a line with product.id exists, its quantity
\* increases by n, the number and order of the lines is unchanged and the
\* other lines are unchanged; otherwise exactly one new line of that product
\* with quantity n is appended at the end and the existing lines are
\* unchanged.
C12_AddToCartMergesOrAppends ==
  [][cartOp'.op = "addToCart" =>
       IF \E i \in 1..Len(cart) : cart[i].id = cartOp'.id
       THEN /\ Len(cart') = Len(cart)
            /\ \A i \in 1..Len(cart) :
                 /\ cart'[i].id = cart[i].id
                 /\ IF cart[i].id = cartOp'.id
                    THEN cart'[i].quantity = cart[i].quantity + cartOp'.quantity
                    ELSE cart'[i] = cart[i]
       ELSE /\ Len(cart') = Len(cart) + 1
            /\ SubSeq(cart', 1, Len(cart)) = cart
            /\ cart'[Len(cart')].id = cartOp'.id
            /\ cart'[Len(cart')].price = cartOp'.price
            /\ cart'[Len(cart')].quantity = cartOp'.quantity]_vars

\* a product was added again and merged into the first of two lines
C12_Witness ==
  /\ cartOp.op = "addToCart"
  /\ Len(cart) = 2
  /\ cart[1].id = cartOp.id
  /\ cartOp.quantity = 2
  /\ cart[1].quantity = 3

\* C13: updateCartQuantity(id, n) on a product in the cart: with n <= 0 that
\* line is removed and the other lines are unchanged; with n >= 1 exactly
\* that line's quantity becomes n and nothing else changes.  removeFromCart,
\* which the components call for n <= 0, removes the line the same way.
C13_UpdateCartQuantityFloor ==
  [][/\ cartOp'.op \in {"updateCartQuantity", "removeFromCart"}
     /\ \E i \in 1..Len(cart) : cart[i].id = cartOp'.id
     => \E i \in 1..Len(cart) :
          /\ cart[i].id = cartOp'.id
          /\ IF cartOp'.op = "removeFromCart" \/ cartOp'.quantity <= 0
             THEN cart' = SubSeq(cart, 1, i - 1) \o SubSeq(cart, i + 1, Len(cart))
             ELSE /\ Len(cart') = Len(cart)
                  /\ cart'[i].quantity = cartOp'.quantity
                  /\ cart'[i].id = cart[i].id
                  /\ cart'[i].price = cart[i].price
                  /\ \A j \in 1..Len(cart) : j # i => cart'[j] = cart[j]]_vars

\* updateCartQuantity with a quantity <= 0 removed one of two lines
C13_Witness ==
  /\ cartOp.op = "updateCartQuantity"
  /\ cartOp.quantity <= 0
  /\ cartOp.effects # << >>
  /\ Len(cart) = 1
  /\ cart[1].id # cartOp.id

\* C14: getCartTotal() returns the sum of price * quantity over the lines of
\* the cart and getCartItemCount() the sum of the quantities.
C14_CartSums ==
  LET c == probe.arg
      Last(I) == CHOOSE i \in I : \A j \in I : j <= i
      amounts[I \in SUBSET DOMAIN c] ==
        IF I = {} THEN 0
        ELSE (c[Last(I)].price * c[Last(I)].quantity) + amounts[I \ {Last(I)}]
      quantities[I \in SUBSET DOMAIN c] ==
        IF I = {} THEN 0
        ELSE c[Last(I)].quantity + quantities[I \ {Last(I)}]
  IN /\ probe.fn = "getCartTotal" => probe.value = amounts[DOMAIN c]
     /\ probe.fn = "getCartItemCount" => probe.value = quantities[DOMAIN c]

\* add({id: 5, price: 10}, 2), add({id: 5, price: 10}, 3): one line of
\* quantity 5 and total 50
C14_Witness ==
  /\ probe.fn = "getCartTotal"
  /\ cartOp.op = "addToCart"
  /\ Len(probe.arg) = 1
  /\ probe.arg[1].id = 5
  /\ probe.arg[1].quantity = 5
  /\ probe.value = 50

C16_RestartRoundTrip ==
  cartOp.op = "restart" => cart = cartOp.before

\* the operation recorded in op changes the cart c
Mutates(op, c) ==
  \/ op.op \in {"addToCart", "removeFromCart", "clearCart"}
  \/ op.op = "updateCartQuantity" /\ \E i \in 1..Len(c) : c[i].id = op.id

\* C17: every cart mutation publishes the new cart once, to every component
\* subscribed at that moment and before the write to localStorage, so that
\* every subscriber holds the cart as it is now when the call returns; a
\* component that subscribes receives the current cart at once.
C17_ObservableCart ==
  [][/\ Mutates(cartOp', cart) =>
          /\ Len(cartOp'.effects) = 2
          /\ cartOp'.effects[1] =
               Effect("next", {s \in CartSubscribers : cartSeen[s].active})
          /\ cartOp'.effects[2].e \in {"setItem", "removeItem"}
          /\ \A s \in CartSubscribers :
               /\ cartSeen'[s].active = cartSeen[s].active
               /\ cartSeen[s].active => cartSeen'[s].last = cart'
     /\ \A s \in CartSubscribers :
          /\ ~cartSeen[s].active /\ cartSeen'[s].active
               => cartSeen'[s].last = cart /\ cart' = cart
          /\ cartSeen'[s].active => cartSeen'[s].last = cart']_vars

\* both components are subscribed and hold the cart of two lines that the
\* last addToCart published
C17_Witness ==
  /\ cartOp.op = "addToCart"
  /\ \A s \in CartSubscribers : cartSeen[s].active /\ cartSeen[s].last = cart
  /\ cartOp.effects[1].to = CartSubscribers
  /\ Len(cart) = 2

\* C18: with a credential stored, isTokenStillValid() is (now < expiry) and
\* isTokenNearExpiry() is (now + 120000 >= expiry); with no credential (null
\* or the empty string) both are false.
C18_TokenPredicates ==
  /\ probe.fn = "isTokenStillValid" =>
       probe.value = IF probe.arg.token = SessionToken
                     THEN probe.arg.now < probe.arg.expiry
                     ELSE FALSE
  /\ probe.fn = "isTokenNearExpiry" =>
       probe.value = IF probe.arg.token = SessionToken
                     THEN probe.arg.now + 120000 >= probe.arg.expiry
                     ELSE FALSE

\* exactly two minutes before expiry the token is near expiry
C18_Witness ==
  /\ probe.fn = "isTokenNearExpiry"
  /\ probe.arg.token = SessionToken
  /\ probe.arg.now + 120000 = probe.arg.expiry
  /\ probe.value

Categories == {"burgers", "chicken", "sides", "drinks", "desserts", "other"}

\* C19: for any raw product the category resolved by mapApiCategory is one
\* of burgers, chicken, sides, drinks, desserts, other: the category of the
\* first test, in that order, that succeeds on the product's search text, and
\* other when none succeeds.
C19_CategoryClosedSet ==
  probe.fn = "mapApiCategory" =>
    /\ probe.value \in Categories
    /\ \A i \in 1..Len(CategoryRules) :
         probe.value = CategoryRules[i].category
           <=> /\ i \in Matching(probe.arg)
               /\ \A j \in 1..(i - 1) : j \notin Matching(probe.arg)
    /\ probe.value = "other" <=> Matching(probe.arg) = {}
    /\ <<"burgers", "chicken", "sides", "drinks", "desserts">> =
         [i \in 1..Len(CategoryRules) |-> CategoryRules[i].category]

\* "Chicken Burger" with categoryName "Chicken" and a category that is not a
\* string: the burger test comes first
C19_Witness ==
  /\ probe.fn = "mapApiCategory"
  /\ probe.arg.category.type = "object"
  /\ probe.arg.categoryName.type = "string"
  /\ {1, 2} \subseteq Matching(probe.arg)
  /\ probe.value = "burgers"

\* C20: extractPriceEnhanced takes the first policy that applies, in the
\* order (1) the first locationPrices entry with a positive number as
\* unitPriceWithVat or as price, (2) the product's unitPriceWithVat, (3) the
\* first of price, unitPrice, cost, amount, basePrice that is a positive
\* number or numeric string, (4) a synthesized price of the product's
\* category; the value taken is rounded to two decimals.
C20_PriceFallbackOrder ==
  probe.fn = "extractPriceEnhanced" =>
    LET p == probe.arg
        Good(v) == v.type = "number" /\ v.n > 0
        entries == IF p.prices.locationPrices.type = "array"
                   THEN p.prices.locationPrices.entries ELSE << >>
        Entry(i) == /\ ~entries[i].isNull
                    /\ Good(entries[i].unitPriceWithVat) \/ Good(entries[i].price)
        Numeric(v) == \/ Good(v)
                      \/ /\ v.type = "string"
                         /\ ~ParseFloat(v.chars).nan
                         /\ ParseFloat(v.chars).n > 0
        ValueOf(v) == IF Good(v) THEN v.n ELSE ParseFloat(v.chars).n
        noEntry == \A i \in DOMAIN entries : ~Entry(i)
        noField == \A k \in 1..5 : ~Numeric(PriceFields(p)[k])
        range == BasePrices[MapApiCategory(p)]
    IN /\ \A i \in DOMAIN entries :
            Entry(i) /\ (\A j \in 1..(i - 1) : ~Entry(j))
              => probe.value =
                   RoundToCents(IF Good(entries[i].unitPriceWithVat)
                                THEN entries[i].unitPriceWithVat.n
                                ELSE entries[i].price.n)
       /\ noEntry /\ Good(p.prices.unitPriceWithVat)
            => probe.value = RoundToCents(p.prices.unitPriceWithVat.n)
       /\ noEntry /\ ~Good(p.prices.unitPriceWithVat)
            => \A k \in 1..5 :
                 /\ Numeric(PriceFields(p)[k])
                 /\ \A j \in 1..(k - 1) : ~Numeric(PriceFields(p)[j])
                 => probe.value = RoundToCents(ValueOf(PriceFields(p)[k]))
       /\ noEntry /\ ~Good(p.prices.unitPriceWithVat) /\ noField
            => /\ probe.value >= range[1] * 700
               /\ probe.value <= range[2] * 1500

\* locationPrices[0].unitPriceWithVat = 12.345 and a top-level price of 99:
\* the resolved price is 12.35
C20_Witness ==
  /\ probe.fn = "extractPriceEnhanced"
  /\ Len(probe.arg.prices.locationPrices.entries) = 1
  /\ probe.arg.prices.locationPrices.entries[1].unitPriceWithVat.n = 12345
  /\ probe.arg.prices.price.n = 99000
  /\ probe.value = 12350

\* C21 (as claimed): the list delivered by a product listing contains no
\* product whose raw payload has isAvailable === false, available === false,
\* status unavailable or disabled, inStock === false, isActive === false,
\* isDisabled === true, a numeric stock <= 0 or a numeric quantity <= 0, and
\* every other product of the located array is in it.
C21_AvailabilityFilter ==
  probe.fn = "getSellingProducts" =>
    LET False(x) == x.type = "boolean" /\ x.n = 0
        Excluded(p) ==
          \/ False(p.fields.isAvailable) \/ False(p.fields.available)
          \/ False(p.fields.inStock) \/ False(p.fields.isActive)
          \/ p.fields.isDisabled.type = "boolean" /\ p.fields.isDisabled.n = 1
          \/ p.fields.status.type = "string"
               /\ p.fields.status.chars[1] \in {"u", "d"}
          \/ p.fields.stock.type = "number" /\ p.fields.stock.n <= 0
          \/ p.fields.quantity.type = "number" /\ p.fields.quantity.n <= 0
    IN /\ \A j \in 1..Len(probe.value) : ~Excluded(probe.value[j])
       /\ \A i \in 1..Len(probe.arg) :
            ~probe.arg[i].isNull /\ ~Excluded(probe.arg[i])
              => \E j \in 1..Len(probe.value) : probe.value[j] = probe.arg[i]

\* C22 (as claimed): when getSellingProducts delivers an empty list the menu
\* ends with an empty product list and no error message, and it shows no
\* product that the remote API did not return.
C22_EmptyMenuOnListingFailure ==
  probe.fn = "loadProductsFromAPI" =>
    /\ probe.value.errorMessage = ""
    /\ probe.arg = << >> => probe.value.products = << >>
    /\ \A i \in 1..Len(probe.value.products) :
         probe.value.products[i].source = "api"

\* C23 (as claimed): a processOrder call that passes validation and completes
\* appends exactly one order, containing the cart lines the checkout had when
\* the call was made, to the order history, clears the cart in memory and in
\* localStorage and shows the confirmation; a call that fails validation
\* changes neither the order history nor the cart.
C23_OrderCompletion ==
  [][/\ checkout'.last = "completed" /\ checkout'.paying # checkout.paying
          => /\ Len(checkout'.orders) = Len(checkout.orders) + 1
             /\ SubSeq(checkout'.orders, 1, Len(checkout.orders))
                  = checkout.orders
             /\ checkout'.orders[Len(checkout'.orders)].items
                  = Head(checkout.paying)
             /\ cart' = << >>
             /\ ~cartStorage'.present
             /\ checkout'.showOrderConfirmation
     /\ checkout.last # "rejected" /\ checkout'.last = "rejected"
          => /\ checkout'.orders = checkout.orders
             /\ cart' = cart
             /\ cartStorage' = cartStorage]_vars

\* the first path of a login response, in priority order, that holds a
\* string of more than 10 characters (0 if there is none)
FirstUsablePath(body) ==
  LET long == {i \in 1..13 : body[i].type = "string" /\ Len(body[i].chars) > 10}
  IN IF long = {} THEN 0 ELSE CHOOSE i \in long : \A j \in long : i <= j

\* r is v without a leading "Bearer" scheme and its blanks, and without
\* leading and trailing blanks
IsCleaned(r, v) ==
  LET Blank(c) == c \in {" ", "\t", "\n"}
      scheme == /\ Len(v) >= 7
                /\ \A i \in 1..6 :
                     v[i] \in {<<"b", "e", "a", "r", "e", "r">>[i],
                               <<"B", "E", "A", "R", "E", "R">>[i]}
                /\ Blank(v[7])
  IN \E a, b \in 0..Len(v) :
       /\ a + b <= Len(v)
       /\ r = SubSeq(v, a + 1, Len(v) - b)
       /\ \A i \in (Len(v) - b + 1)..Len(v) : Blank(v[i])
       /\ scheme => a >= 7
       /\ \A i \in (IF scheme THEN 7 ELSE 1)..a : Blank(v[i])
       /\ r = << >> \/ (~Blank(r[1]) /\ ~Blank(r[Len(r)]))

\* C24 (as claimed): after login() received a response with a usable token,
\* the credential's token is that token, its expiry is now + 23 hours, both
\* are persisted, isRefreshingToken is false and true was broadcast.
C24_OriginalLoginSuccess ==
  (probe.fn = "login" /\ ~probe.arg.failed
     /\ FirstUsablePath(probe.arg.body) # 0) =>
    /\ svc.authToken = Text(probe.arg.body[FirstUsablePath(probe.arg.body)].chars)
    /\ svc.tokenExpiryTime = now + 23 * 60 * 60 * 1000
    /\ svc.storedToken = svc.authToken
    /\ svc.storedExpiry = svc.tokenExpiryTime
    /\ ~svc.isRefreshingToken
    /\ svc.refreshTokenSubject

\* C24 (amended): the credential's token is that token without a leading
\* "Bearer" scheme and without surrounding blanks (possibly the empty
\* string); the other effects are as claimed.
C24_LoginSuccess ==
  (probe.fn = "login" /\ ~probe.arg.failed
     /\ FirstUsablePath(probe.arg.body) # 0) =>
    /\ \E r \in {CleanToken(probe.arg.body[FirstUsablePath(probe.arg.body)].chars)} :
         /\ IsCleaned(r, probe.arg.body[FirstUsablePath(probe.arg.body)].chars)
         /\ svc.authToken = Text(r)
    /\ svc.tokenExpiryTime = now + 23 * 60 * 60 * 1000
    /\ svc.storedToken = svc.authToken
    /\ svc.storedExpiry = svc.tokenExpiryTime
    /\ ~svc.isRefreshingToken
    /\ svc.refreshTokenSubject

\* a refresh was in flight and the login response carries the token with its
\* scheme: the credential is the bare token
C24_Witness ==
  /\ probe.fn = "login"
  /\ probe.before.isRefreshingToken
  /\ FirstUsablePath(probe.arg.body) # 0
  /\ Len(probe.arg.body[FirstUsablePath(probe.arg.body)].chars) = 19
  /\ svc.authToken = SessionToken
  /\ svc.refreshTokenSubject

\* C25: login() ends in an error exactly when the HTTP call fails or no
\* candidate path holds a usable token; then the credential and what is
\* persisted are as before the response, isRefreshingToken is false and the
\* refresh broadcast holds false.
C25_LoginFailure ==
  probe.fn = "login" =>
    /\ probe.value = "error"
         <=> (probe.arg.failed \/ FirstUsablePath(probe.arg.body) = 0)
    /\ probe.value = "error" =>
         /\ svc.authToken = probe.before.authToken
         /\ svc.tokenExpiryTime = probe.before.tokenExpiryTime
         /\ svc.storedToken = probe.before.storedToken
         /\ svc.storedExpiry = probe.before.storedExpiry
         /\ ~svc.isRefreshingToken
         /\ ~svc.refreshTokenSubject

\* a refresh was in flight after an earlier successful login, and the
\* response holds only a string of 10 characters
C25_Witness ==
  /\ probe.fn = "login"
  /\ probe.value = "error"
  /\ ~probe.arg.failed
  /\ \E i \in 1..13 : Len(probe.arg.body[i].chars) = 10
  /\ probe.before.isRefreshingToken
  /\ probe.before.refreshTokenSubject
  /\ svc.authToken = NullToken

\* C26 (as claimed): the credential's token is exactly the value of the
\* first path, in priority order, that holds a string longer than 10
\* characters; other values are skipped.
C26_OriginalTokenExtraction ==
  (probe.fn = "login" /\ ~probe.arg.failed) =>
    \A i \in 1..Len(LoginPaths) :
      (/\ probe.arg.body[i].type = "string"
       /\ Len(probe.arg.body[i].chars) > 10
       /\ \A j \in 1..(i - 1) : \/ probe.arg.body[j].type # "string"
                                \/ Len(probe.arg.body[j].chars) <= 10)
        => svc.authToken = Text(probe.arg.body[i].chars)

\* C26 (amended): the credential's token is the value of that first path
\* without a leading "Bearer" scheme and surrounding blanks; when no path
\* holds a string longer than 10 characters the credential is left as it was.
C26_TokenExtraction ==
  (probe.fn = "login" /\ ~probe.arg.failed) =>
    /\ \A i \in 1..Len(LoginPaths) :
         (/\ probe.arg.body[i].type = "string"
          /\ Len(probe.arg.body[i].chars) > 10
          /\ \A j \in 1..(i - 1) : \/ probe.arg.body[j].type # "string"
                                   \/ Len(probe.arg.body[j].chars) <= 10)
           => \E a, b \in 0..Len(probe.arg.body[i].chars) :
                /\ a + b <= Len(probe.arg.body[i].chars)
                /\ IsCleaned(SubSeq(probe.arg.body[i].chars, a + 1,
                                    Len(probe.arg.body[i].chars) - b),
                             probe.arg.body[i].chars)
                /\ svc.authToken = Text(SubSeq(probe.arg.body[i].chars, a + 1,
                                               Len(probe.arg.body[i].chars) - b))
    /\ (\A i \in 1..Len(LoginPaths) : \/ probe.arg.body[i].type # "string"
                                      \/ Len(probe.arg.body[i].chars) <= 10)
         => svc.authToken = probe.before.authToken

\* two paths hold usable strings and a path before both holds nothing: the
\* credential is the value of the earlier of the two
C26_Witness ==
  /\ probe.fn = "login"
  /\ \E i, j \in 2..Len(LoginPaths) :
       /\ i < j
       /\ Len(probe.arg.body[i].chars) = 11
       /\ probe.arg.body[j].chars = SessionChars
       /\ svc.authToken = Text(probe.arg.body[i].chars)

C28_SuccessFlag ==
  (ev.kind = "order" /\ ev.outcome \in OrderBodies /\ ev.err = "none") =>
    (ev.result.isSuccess = FALSE
       <=> ev.outcome \in {"unrecognizedFalse", "unnumberedFalse"})

\* C29: a raw product is in a category's product list only if one of its
\* fields productCategoryUid, categoryUid (against the category's uid) or
\* categoryId (against its id) is present and equal to the category's
\* identifier; a product with none of the three fields is in no category;
\* no category of the result has an empty product list.
C29_CategoryAssociation ==
  probe.fn = "getCategoriesWithProducts" =>
    \A i \in 1..Len(probe.value) :
      /\ Len(probe.value[i].products) > 0
      /\ \A k \in 1..Len(probe.value[i].products) :
           LET f == probe.value[i].products[k].fields
               category == probe.value[i].category
           IN \/ f.productCategoryUid.type # "undefined"
                   /\ f.productCategoryUid = category.uid
              \/ f.categoryUid.type # "undefined"
                   /\ f.categoryUid = category.uid
              \/ f.categoryId.type # "undefined"
                   /\ f.categoryId = category.id

\* C30 (as claimed): the image is resolved by first match: (1) an imageUid
\* of at least 10 characters gives the getImage URL built from it, (2) an
\* image field with the inline-image prefix is used verbatim, (3) an imageUrl
\* starting with the inline-image prefix or with http is used verbatim,
\* (4) otherwise the stock photo of the category with the product id; no
\* other rule applies.
C30_OriginalImagePolicy ==
  probe.fn = "generateImageUrlEnhanced" =>
    LET p == probe.arg
        Str(v) == v.type = "string"
        inline == <<"d", "a", "t", "a", ":", "i", "m", "a", "g", "e", "/">>
        locator == <<"h", "t", "t", "p", "s", ":", "/", "/", "a", "p",
                     "i", "-", "s", "t", "a", "g", "i", "n", "g", "-",
                     "h", "e", "s", "b", "u", "r", "g", "e", "r", ".",
                     "f", "r", "e", "y", "a", ".", "c", "l", "o", "u",
                     "d", "/", "f", "i", "l", "e", "/", "g", "e", "t",
                     "I", "m", "a", "g", "e", "?", "i", "m", "a", "g",
                     "e", "U", "i", "d", "=">>
    IN probe.value =
         IF Str(p.imageUid) /\ Len(p.imageUid.chars) >= 10
         THEN locator \o p.imageUid.chars
         ELSE IF Str(p.image) /\ StartsWith(p.image.chars, inline)
         THEN p.image.chars
         ELSE IF Str(p.imageUrl)
                 /\ (\/ StartsWith(p.imageUrl.chars, inline)
                     \/ StartsWith(p.imageUrl.chars, <<"h", "t", "t", "p">>))
         THEN p.imageUrl.chars
         ELSE GenerateCategoryBasedImageUrl(p, probe.rnd)

\* C30 (amended): (1) applies to an imageUid of more than 10 characters, and
\* between (2) and (3) an image field of more than 20 characters without a
\* blank is taken for an image identifier and gives the getImage URL.
C30_ImagePolicy ==
  probe.fn = "generateImageUrlEnhanced" =>
    LET p == probe.arg
        Str(v) == v.type = "string"
        inline == <<"d", "a", "t", "a", ":", "i", "m", "a", "g", "e", "/">>
        locator == <<"h", "t", "t", "p", "s", ":", "/", "/", "a", "p",
                     "i", "-", "s", "t", "a", "g", "i", "n", "g", "-",
                     "h", "e", "s", "b", "u", "r", "g", "e", "r", ".",
                     "f", "r", "e", "y", "a", ".", "c", "l", "o", "u",
                     "d", "/", "f", "i", "l", "e", "/", "g", "e", "t",
                     "I", "m", "a", "g", "e", "?", "i", "m", "a", "g",
                     "e", "U", "i", "d", "=">>
    IN probe.value =
         IF Str(p.imageUid) /\ Len(p.imageUid.chars) > 10
         THEN locator \o p.imageUid.chars
         ELSE IF Str(p.image) /\ StartsWith(p.image.chars, inline)
         THEN p.image.chars
         ELSE IF Str(p.image) /\ Len(p.image.chars) > 20
                 /\ \A i \in 1..Len(p.image.chars) : p.image.chars[i] # " "
         THEN locator \o p.image.chars
         ELSE IF Str(p.imageUrl)
                 /\ (\/ StartsWith(p.imageUrl.chars, inline)
                     \/ StartsWith(p.imageUrl.chars, <<"h", "t", "t", "p">>))
         THEN p.imageUrl.chars
         ELSE GenerateCategoryBasedImageUrl(p, probe.rnd)

\* an imageUid of 10 characters is passed over and the image field, 21
\* characters without a blank, gives the getImage URL
C30_Witness ==
  /\ probe.fn = "generateImageUrlEnhanced"
  /\ Len(probe.arg.imageUid.chars) = 10
  /\ Len(probe.arg.image.chars) = 21
  /\ probe.arg.imageUrl.type = "string"
  /\ Len(probe.value) = 65 + 21

\* C31: the persisted token and expiry are present if and only if an
\* in-memory credential exists, and then they equal it.
C31_CredentialMirror ==
  IF svc.authToken \notin {NullToken, ""}
  THEN svc.storedToken = svc.authToken /\ svc.storedExpiry = svc.tokenExpiryTime
  ELSE svc.storedToken = "absent" /\ svc.storedExpiry = 0 - 1


\* the length and the quantities of an array of lines
Shape(value) == [k \in 1..Len(value) |-> value[k].quantity]

\* C32: an array delivered to a subscriber keeps the length and the line
\* quantities it was delivered with, and what a component does to the
\* array or the lines it received leaves the store's state as it was: when
\* addInstructions calls the service, the store's state is still the one
\* before the handler ran.
C32_SingleWriter ==
  /\ [](\A a \in 1..Len(probe.arrays) :
          probe.delivered[a].done =>
            Shape(Deref(probe, a)) = Shape(probe.delivered[a].value))
  /\ [][probe'.fn = "addInstructions" => probe'.atCall = StoreState(probe)]_vars


\* C33: in every state of MenuComponent the categories list is the fixed
\* list of 7 entries, in its order.
C33_ProtectedCategories == probe.categories = FIXED_CATEGORIES

\* the API has delivered seven categories of its own
C33_Witness ==
  /\ probe.fn = "categoriesLoaded"
  /\ Len(probe.categoriesWithProducts) = 7
  /\ probe.categoriesWithProducts # FIXED_CATEGORIES
  /\ probe.products = "mock"


\* C34: whenever isRefreshingToken is true it eventually becomes false
\* again, also when the subscriber of the call that started the refresh
\* unsubscribes before the login response arrives.
C34_RefreshFlagLiveness ==
  svc.isRefreshingToken ~> ~svc.isRefreshingToken


\* the POST /login requests in flight: those of the timer, the self-test
\* and forceReauth, and those the subscribed calls wait for
LoginsInFlight ==
  LET callers == {e \in BagToSet(subs) : AwaitsLogin(e)}
      count[S \in SUBSET callers] ==
        IF S = {} THEN 0
        ELSE LET e == CHOOSE x \in S : TRUE
             IN CopiesIn(e, subs) + count[S \ {e}]
  IN BagCardinality(net.logins) + count[callers]

\* C35: at most one POST /login is in flight at any time.
C35_SingleLoginInFlight == LoginsInFlight <= 1


\* C36: once the callers have stopped calling, the POST /login requests
\* come to an end: from some point on no login is in flight and no
\* self-test is scheduled or running.
C36_BoundedLoginAttempts ==
  <>[](LoginsInFlight = 0 /\ bg.selfTestTimers = 0 /\ bg.selfTestReqs = 0)


\* the timer's proactive refresh is in flight, and the credential it
\* discarded (the one loaded at construction) has not expired yet
ProactiveRefreshOfValid ==
  /\ \E l \in BagToSet(net.logins) : l.kind = "timer" /\ l.refresh
  /\ now < LoadedService.tokenExpiryTime

\* C37: while the last obtained credential has not expired, a call does
\* not fail for authentication reasons; in particular no call fails with
\* 'Token refresh failed' while the timer's refresh of a still valid
\* credential is in flight.
C37_ValidCredentialUsable ==
  ProactiveRefreshOfValid => ev.err # "refreshFailed"


\* C38: every order in the local order history has at least one item, also
\* when processOrder was invoked again while an earlier invocation was
\* waiting for the payment delay.
C38_NoEmptyOrder ==
  \A k \in 1..Len(checkout.orders) : checkout.orders[k].items # << >>


\* C39: at most one scanner is active at any time, none is active after
\* ngOnDestroy, and the timers for startScanner come to an end.
C39_ScannerLifecycle ==
  /\ [](probe.active <= 1)
  /\ [](probe.destroyed => probe.active = 0)
  /\ <>[](probe.timers = 0)

====
